---- MODULE Spec2Model ----
(***************************************************************************)
(* A model of scram::mef::Initializer (src/src/initializer.cc): the        *)
(* two-phase loader of Open-PSA MEF documents.  The constructor runs       *)
(* ProcessInputFiles: pre-flight checks of the paths, registration of the  *)
(* entities of every file, deferred definition of the registered entities, *)
(* validation, and the setup for analysis.                                 *)
(*                                                                         *)
(* A thrown exception is modelled by the field err of the threaded state:  *)
(* an operation that finds err set does nothing (the stack unwinds), and a *)
(* catch clause of the source is an operator that rewrites err.            *)
(***************************************************************************)
EXTENDS Integers, Sequences, FiniteSets, TLC

VARIABLES
    xml_files,      \* the constructor's argument: the supplied paths
    disk,           \* the parsed content of each path (the file system)
    settings_,      \* core::Settings: [probability_analysis]
    pc,             \* the position of the constructor in ProcessInputFiles
    file_i,         \* number of input files already processed
    tbd_i,          \* number of tbd_ items already defined
    model_,         \* the Model under construction
    tbd_,           \* the pending (entity, xml node) work list
    expressions_,   \* the deferred-validation list (expression, xml node)
    doc_to_file_,   \* document root -> file name
    parsers_,       \* the retained DOM parsers (one per loaded document)
    err             \* the exception that left the constructor, if any

vars ==
    << xml_files, disk, settings_, pc, file_i, tbd_i, model_, tbd_,
       expressions_, doc_to_file_, parsers_, err >>

-----------------------------------------------------------------------------
(* Bounds of the checked inputs.                                           *)

MaxFiles == 4

\* The number of gates, of parameters and of named branches of a generated
\* model.
MaxNodes == 2

-----------------------------------------------------------------------------
(* XML documents.  An element knows its document (doc: the path the        *)
(* document was parsed from), its tag, its attributes, its source line and *)
(* its child elements in document order.                                   *)

El(doc, tag, attrs, line, kids) ==
    [doc |-> doc, tag |-> tag, attrs |-> attrs, line |-> line, kids |-> kids]

HasAttribute(el, a) == a \in DOMAIN el.attrs

GetAttributeValue(el, a) == IF a \in DOMAIN el.attrs THEN el.attrs[a] ELSE ""

\* xmlpp find("./tag"): the children with that tag, in document order.
Find(el, tag) == SelectSeq(el.kids, LAMBDA k : k.tag = tag)

\* find("./*")
FindAll(el) == el.kids

GetNonAttributeElements(el) ==
    SelectSeq(el.kids, LAMBDA k : k.tag # "attributes" /\ k.tag # "label")

\* GetLine: the "Line N:" prefix of a message, kept as the number.
GetLine(el) == el.line

\* find("/opsa-mef")[0]: the root of the element's document.
RootOf(el) == el.doc

-----------------------------------------------------------------------------
(* Exceptions.                                                             *)

NoError == [kind |-> "none", msg |-> "", lines |-> <<>>, files |-> <<>>,
            names |-> <<>>, posix |-> 0]

Error(kind, msg, lines, names) ==
    [kind |-> kind, msg |-> msg, lines |-> lines, files |-> <<>>,
     names |-> names, posix |-> 0]

Ok(s) == s.err.kind = "none"

Throw(s, e) == [s EXCEPT !.err = e]

\* catch (ValidationError& err) { err.msg(GetLine(node) + err.msg()); throw; }
AddLine(s, el) ==
    IF s.err.kind = "ValidationError"
    THEN [s EXCEPT !.err.lines = <<GetLine(el)>> \o @]
    ELSE s

\* catch (ValidationError& err) { err.msg("In file '" + f + "', " + ...); throw; }
AddFile(s, f) ==
    IF s.err.kind = "ValidationError"
    THEN [s EXCEPT !.err.files = <<f>> \o @]
    ELSE s

-----------------------------------------------------------------------------
(* The file system as boost::filesystem sees it.                           *)

Paths == {"a.xml", "./a.xml", "b.xml", "./b.xml", "missing.xml"}

Exists(p) == p # "missing.xml"

\* fs::canonical, as the rank of the canonical path in the order of fs::path.
Canonical(p) ==
    CASE p \in {"a.xml", "./a.xml"} -> 1
      [] p \in {"b.xml", "./b.xml"} -> 2
      [] OTHER -> 3

-----------------------------------------------------------------------------
(* The Model: one registry per entity kind, in registration order, and the *)
(* expressions it owns.  An entity is referred to by its kind and its      *)
(* position in the registry of the kind (the pointer).                     *)

Kinds ==
    {"gate", "basic-event", "house-event", "parameter", "ccf-group",
     "fault-tree", "event-tree", "sequence"}

EmptyModel ==
    [constructed |-> FALSE, reg |-> [k \in Kinds |-> <<>>],
     expressions |-> <<>>]

Ref(kind, i) == [kind |-> kind, i |-> i]

Deref(m, r) == m.reg[r.kind][r.i]

\* The scope of a name: the base path of a private entity, global otherwise.
Scope(e) ==
    IF e.role = "private" THEN <<"private">> \o e.base_path ELSE <<"public">>

Present(m, kind, name, scope) ==
    \E i \in 1..Len(m.reg[kind]) :
        m.reg[kind][i].name = name /\ Scope(m.reg[kind][i]) = scope

\* Model::Add: registration fails when the name is present under the scope.
ModelAdd(s, kind, ent) ==
    IF Present(s.model_, kind, ent.name, Scope(ent))
    THEN Throw(s, Error("ValidationError", "DuplicateEntity", <<>>,
                        <<kind, ent.name>>))
    ELSE [s EXCEPT !.model_.reg[kind] = Append(@, ent),
                   !.ret = Ref(kind, Len(s.model_.reg[kind]) + 1)]

IndexOf(m, kind, name, scope) ==
    CHOOSE i \in 1..Len(m.reg[kind]) :
        m.reg[kind][i].name = name /\ Scope(m.reg[kind][i]) = scope

\* The lengths n of the prefixes of base_path under which a private entity
\* of the kind has the name.
PrivateMatches(m, kind, name, base_path) ==
    {n \in 1..Len(base_path) :
        Present(m, kind, name, <<"private">> \o SubSeq(base_path, 1, n))}

MaxOf(S) == CHOOSE n \in S : \A k \in S : k <= n

\* The resolution order of a lookup: base_path + "." + name as a private
\* match, walking up the ancestor paths; then a public match by bare name.
\* The result is the position in the registry, 0 when there is no match
\* (std::out_of_range).
Lookup(m, kind, name, base_path) ==
    LET priv == PrivateMatches(m, kind, name, base_path)
    IN  IF priv # {}
        THEN IndexOf(m, kind, name,
                     <<"private">> \o SubSeq(base_path, 1, MaxOf(priv)))
        ELSE IF Present(m, kind, name, <<"public">>)
        THEN IndexOf(m, kind, name, <<"public">>)
        ELSE 0

NoRef == Ref("none", 0)

GetEntity(m, kind, name, base_path) ==
    LET i == Lookup(m, kind, name, base_path)
    IN  IF i = 0 THEN NoRef ELSE Ref(kind, i)

GetGate(m, name, base_path) == GetEntity(m, "gate", name, base_path)

GetBasicEvent(m, name, base_path) ==
    GetEntity(m, "basic-event", name, base_path)

GetHouseEvent(m, name, base_path) ==
    GetEntity(m, "house-event", name, base_path)

GetParameterOf(m, name, base_path) ==
    GetEntity(m, "parameter", name, base_path)

\* get_event: any of the event kinds.
GetEvent(m, name, base_path) ==
    LET g == GetGate(m, name, base_path)
        b == GetBasicEvent(m, name, base_path)
    IN  IF b # NoRef THEN b
        ELSE IF g # NoRef THEN g
        ELSE GetHouseEvent(m, name, base_path)

-----------------------------------------------------------------------------
(* Construction and registration of entities (the first pass).             *)

\* GetRole(s, parent_role)
GetRole(s, parent_role) == IF s = "" THEN parent_role ELSE s

\* ConstructElement<T>(xml_element, base_path, base_role) of a Role element.
\* The field valid is the outcome of the Validate() of the entity, which
\* rests on the numbers of the element: the element states it.
ConstructElement(el, base_path, base_role) ==
    [name |-> GetAttributeValue(el, "name"),
     base_path |-> base_path,
     role |-> GetRole(GetAttributeValue(el, "role"), base_role),
     valid |-> GetAttributeValue(el, "valid") # "false",
     line |-> el.line, doc |-> el.doc]

\* ConstructElement<T>(xml_element) of an Element without a role.
ConstructPlainElement(el) ==
    [name |-> GetAttributeValue(el, "name"), base_path |-> <<>>,
     role |-> "public", valid |-> TRUE, line |-> el.line, doc |-> el.doc]

Tbd(ref, node) == [ref |-> ref, node |-> node]

\* Register(T&& element, xml_element): Model::Add, the line put before the
\* message of its ValidationError.
Register(s, kind, ent, el) == AddLine(ModelAdd(s, kind, ent), el)

\* An entity with more fields.
With(e, more) ==
    [f \in DOMAIN e \cup DOMAIN more |->
        IF f \in DOMAIN more THEN more[f] ELSE e[f]]

\* tbd_.emplace_back(element, xml_node), once the registration returned.
TbdEmplaceBack(s, node) ==
    IF ~Ok(s) THEN s ELSE [s EXCEPT !.tbd_ = Append(@, Tbd(s.ret, node))]

RegisterGateEager(s, node, base_path, container_role) ==
    Register([s EXCEPT !.tbd_ = Append(@, Tbd(Ref("gate",
                  Len(s.model_.reg["gate"]) + 1), node))],
             "gate",
             With(ConstructElement(node, base_path, container_role),
                  [formula |-> <<>>, mark |-> "clear"]),
             node)

RegisterGate(s, node, base_path, container_role) ==
    TbdEmplaceBack(
        Register(s, "gate",
                 With(ConstructElement(node, base_path, container_role),
                      [formula |-> <<>>, mark |-> "clear"]),
                 node),
        node)

RegisterBasicEventOnly(s, node, base_path, container_role) ==
    Register(s, "basic-event",
             With(ConstructElement(node, base_path, container_role),
                  [expression |-> <<>>]),
             node)

RegisterBasicEvent(s, node, base_path, container_role) ==
    TbdEmplaceBack(
        Register(s, "basic-event",
                 With(ConstructElement(node, base_path, container_role),
                      [expression |-> <<>>]),
                 node),
        node)

RegisterHouseEvent(s, node, base_path, container_role) ==
    LET expression == Find(node, "constant")
        state == IF expression # <<>>
                 THEN GetAttributeValue(expression[1], "value") = "true"
                 ELSE FALSE
        SetState(s1) ==
            IF ~Ok(s1) THEN s1
            ELSE [s1 EXCEPT
                    !.model_.reg["house-event"][s1.ret.i].state = state]
    IN  SetState(Register(s, "house-event",
                          With(ConstructElement(node, base_path,
                                                container_role),
                               [state |-> FALSE]),
                          node))

RegisterParameterUnitless(s, node, base_path, container_role) ==
    TbdEmplaceBack(
        Register(s, "parameter",
                 With(ConstructElement(node, base_path, container_role),
                      [expression |-> <<>>, unit |-> "unitless",
                       unused |-> TRUE, mark |-> "clear"]),
                 node),
        node)

RegisterParameter(s, node, base_path, container_role) ==
    LET unit == GetAttributeValue(node, "unit")
        SetUnit(s1) ==
            IF ~Ok(s1) THEN s1
            ELSE [s1 EXCEPT
                    !.model_.reg["parameter"][s1.ret.i].unit =
                        IF unit # "" THEN unit ELSE @]
    IN  SetUnit(TbdEmplaceBack(
            Register(s, "parameter",
                     With(ConstructElement(node, base_path, container_role),
                          [expression |-> <<>>, unit |-> "unitless",
                           unused |-> TRUE, mark |-> "clear"]),
                     node),
            node))

RegisterSequence(s, node) ==
    TbdEmplaceBack(
        Register(s, "sequence",
                 With(ConstructPlainElement(node), [instructions |-> <<>>]),
                 node),
        node)

\* catch (DuplicateArgumentError& err) { err.msg(GetLine(node) + ...); throw; }
AddLineToDuplicate(s, el) ==
    IF s.err.kind = "DuplicateArgumentError"
    THEN [s EXCEPT !.err.lines = <<GetLine(el)>> \o @]
    ELSE s

\* CcfGroup::AddMember: the members of a group are a set of names.
AddMember(s, g, basic_event) ==
    IF \E k \in 1..Len(s.model_.reg["ccf-group"][g].members) :
          s.model_.reg["ccf-group"][g].members[k].name = basic_event.name
    THEN Throw(s, Error("DuplicateArgumentError", "DuplicateMember", <<>>,
                        <<basic_event.name>>))
    ELSE [s EXCEPT !.model_.reg["ccf-group"][g].members =
                        Append(@, basic_event)]

\* The member of a CCF group that an element of its members declares.
CcfMember(ccf_group, event_node) ==
    [name |-> GetAttributeValue(event_node, "name"),
     base_path |-> ccf_group.base_path,
     role |-> ccf_group.role,
     valid |-> TRUE,
     line |-> event_node.line, doc |-> event_node.doc,
     expression |-> <<>>]

\* The body of the loop of ProcessCcfMembers.
ProcessCcfMember(s, event_node, g, basic_event) ==
    LET RegisterMember(s1) ==
            IF ~Ok(s1) THEN s1
            ELSE Register(s1, "basic-event", basic_event, event_node)
    IN  RegisterMember(AddLineToDuplicate(AddMember(s, g, basic_event),
                                          event_node))

RECURSIVE ProcessCcfMembersFrom(_, _, _)
ProcessCcfMembersFrom(s, nodes, g) ==
    IF ~Ok(s) \/ nodes = <<>> THEN s
    ELSE ProcessCcfMembersFrom(
             ProcessCcfMember(s, Head(nodes), g,
                 CcfMember(s.model_.reg["ccf-group"][g], Head(nodes))),
             Tail(nodes), g)

ProcessCcfMembers(s, members_node, g) ==
    ProcessCcfMembersFrom(s, FindAll(members_node), g)

RegisterCcfGroup(s, node, base_path, container_role) ==
    LET Members(s1) ==
            LET Pending(s2) ==
                    IF ~Ok(s2) THEN s2
                    ELSE [s2 EXCEPT !.tbd_ = Append(@, Tbd(s1.ret, node)),
                                    !.ret = s1.ret]
            IN  IF ~Ok(s1) THEN s1
                ELSE Pending(ProcessCcfMembers(s1, Find(node, "members")[1],
                                               s1.ret.i))
    IN  Members(Register(s, "ccf-group",
                    With(ConstructElement(node, base_path, container_role),
                         [model |-> GetAttributeValue(node, "model"),
                          members |-> <<>>, distribution |-> <<>>,
                          factors |-> <<>>]),
                    node))

\* The specialisation of Register<T>(node, base_path, role) for the tag of
\* the node.
RegisterKind(s, node, base_path, container_role) ==
    CASE node.tag = "define-house-event" ->
            RegisterHouseEvent(s, node, base_path, container_role)
      [] node.tag = "define-basic-event" ->
            RegisterBasicEvent(s, node, base_path, container_role)
      [] node.tag = "define-parameter" ->
            RegisterParameter(s, node, base_path, container_role)
      [] node.tag = "define-gate" ->
            RegisterGate(s, node, base_path, container_role)
      [] node.tag = "define-CCF-group" ->
            RegisterCcfGroup(s, node, base_path, container_role)

-----------------------------------------------------------------------------
(* Containers: fault trees and components, event trees, model data.        *)

\* Component::Add of an event, a parameter or a CCF group.
ComponentAdd(component, ref) ==
    [component EXCEPT !.members = Append(@, ref)]

\* Component::Add of a sub-component: the names of the sub-components of a
\* component are unique.
ComponentAddSub(s, component, sub) ==
    IF \E k \in 1..Len(component.components) :
          component.components[k].name = sub.name
    THEN Throw(s, Error("ValidationError", "DuplicateEntity", <<>>,
                        <<"component", sub.name>>))
    ELSE [s EXCEPT !.ret =
            [component EXCEPT !.components = Append(@, sub)]]

NewComponent(e) == With(e, [members |-> <<>>, components |-> <<>>])

\* The first five loops of RegisterFaultTreeData, over the nodes of the
\* house events, the basic events, the parameters, the gates and the CCF
\* groups in that order:
\* component->Add(Register<T>(node, base_path, component->role())).
RECURSIVE RegisterEach(_, _, _, _)
RegisterEach(s, nodes, base_path, component) ==
    LET Added(s1) ==
            IF ~Ok(s1) THEN s1
            ELSE RegisterEach(s1, Tail(nodes), base_path,
                              ComponentAdd(component, s1.ret))
    IN  IF ~Ok(s) THEN s
        ELSE IF nodes = <<>> THEN [s EXCEPT !.ret = component]
        ELSE Added(RegisterKind(s, Head(nodes), base_path, component.role))

RECURSIVE RegisterFaultTreeData(_, _, _, _)
RECURSIVE DefineComponent(_, _, _, _)
RECURSIVE RegisterComponents(_, _, _, _)

\* The last loop of RegisterFaultTreeData: the sub-components.
RegisterComponents(s, nodes, base_path, component) ==
    LET Defined(s1) ==
            LET AddedSub(s2) ==
                    IF ~Ok(s2) THEN s2
                    ELSE RegisterComponents(s2, Tail(nodes), base_path,
                                            s2.ret)
            IN  IF ~Ok(s1) THEN s1
                ELSE AddedSub(AddLine(ComponentAddSub(s1, component, s1.ret),
                                      Head(nodes)))
    IN  IF ~Ok(s) THEN s
        ELSE IF nodes = <<>> THEN [s EXCEPT !.ret = component]
        ELSE Defined(DefineComponent(s, Head(nodes), base_path,
                                     component.role))

\* The Component that DefineComponent constructs.
ConstructComponent(component_node, base_path, container_role) ==
    NewComponent(ConstructElement(component_node, base_path, container_role))

DefineComponentFlat(s, component_node, base_path, container_role) ==
    RegisterFaultTreeData(s, component_node, base_path,
        ConstructComponent(component_node, base_path, container_role))

DefineComponentParentRole(s, component_node, base_path, container_role) ==
    RegisterFaultTreeData(s, component_node,
        Append(base_path, GetAttributeValue(component_node, "name")),
        [ConstructComponent(component_node, base_path, container_role)
            EXCEPT !.role = container_role])

DefineComponent(s, component_node, base_path, container_role) ==
    RegisterFaultTreeData(s, component_node,
        Append(base_path, GetAttributeValue(component_node, "name")),
        ConstructComponent(component_node, base_path, container_role))

RegisterFaultTreeDataGatesFirst(s, ft_node, base_path, component) ==
    LET Components(s5) ==
            IF ~Ok(s5) THEN s5
            ELSE RegisterComponents(s5, Find(ft_node, "define-component"),
                                    base_path, s5.ret)
    IN  Components(RegisterEach(s,
            Find(ft_node, "define-gate")
            \o Find(ft_node, "define-house-event")
            \o Find(ft_node, "define-basic-event")
            \o Find(ft_node, "define-parameter")
            \o Find(ft_node, "define-CCF-group"),
            base_path, component))

RegisterFaultTreeData(s, ft_node, base_path, component) ==
    LET Components(s5) ==
            IF ~Ok(s5) THEN s5
            ELSE RegisterComponents(s5, Find(ft_node, "define-component"),
                                    base_path, s5.ret)
    IN  Components(RegisterEach(s,
            Find(ft_node, "define-house-event")
            \o Find(ft_node, "define-basic-event")
            \o Find(ft_node, "define-parameter")
            \o Find(ft_node, "define-gate")
            \o Find(ft_node, "define-CCF-group"),
            base_path, component))

\* FaultTree(name): a component at the top level, with a public role.
DefineFaultTree(s, ft_node) ==
    LET RegisterTree(s1) ==
            IF ~Ok(s1) THEN s1
            ELSE Register(s1, "fault-tree", s1.ret, ft_node)
    IN  RegisterTree(RegisterFaultTreeData(s, ft_node,
            <<GetAttributeValue(ft_node, "name")>>,
            NewComponent(ConstructPlainElement(ft_node))))

\* EventTree::Add of a functional event or of a named branch: the names of
\* each are unique in the tree.
EventTreeAdd(s, event_tree, field, item) ==
    IF \E k \in 1..Len(event_tree[field]) :
          event_tree[field][k].name = item.name
    THEN Throw(s, Error("ValidationError", "DuplicateEntity", <<>>,
                        <<field, item.name>>))
    ELSE [s EXCEPT !.ret = [event_tree EXCEPT ![field] = Append(@, item)]]

\* The loops of DefineEventTree over the functional events and over the
\* named branches; ret is the event tree under construction.
RECURSIVE AddEach(_, _, _)
AddEach(s, field, nodes) ==
    IF ~Ok(s) \/ nodes = <<>> THEN s
    ELSE AddEach(AddLine(EventTreeAdd(s, s.ret, field,
                             With(ConstructPlainElement(Head(nodes)),
                                  [target |-> <<>>, instructions |-> <<>>,
                                   mark |-> "clear"])),
                         Head(nodes)),
                 field, Tail(nodes))

\* The loop of DefineEventTree over the sequences.
RECURSIVE AddSequences(_, _, _)
AddSequences(s, event_tree, nodes) ==
    LET Added(s1) ==
            IF ~Ok(s1) THEN s1
            ELSE AddSequences(s1,
                    [event_tree EXCEPT !.sequences = Append(@, s1.ret)],
                    Tail(nodes))
    IN  IF ~Ok(s) THEN s
        ELSE IF nodes = <<>> THEN [s EXCEPT !.ret = event_tree]
        ELSE Added(RegisterSequence(s, Head(nodes)))

DefineEventTreeRegisteredFirst(s, et_node) ==
    LET t == Len(s.model_.reg["event-tree"]) + 1
        shell == With(ConstructPlainElement(et_node),
                      [functional_events |-> <<>>, sequences |-> <<>>,
                       branches |-> <<>>, forks |-> <<>>,
                       initial_state |-> <<>>])
        Sequences(s1) ==
            IF ~Ok(s1) THEN s1
            ELSE AddSequences(s1, s1.ret, Find(et_node, "define-sequence"))
        Contents(s0) ==
            IF ~Ok(s0) THEN s0
            ELSE AddEach(
                     Sequences(
                         AddEach([s0 EXCEPT !.ret = shell],
                                 "functional_events",
                                 Find(et_node, "define-functional-event"))),
                     "branches", Find(et_node, "define-branch"))
        Kept(s3) ==
            IF ~Ok(s3) THEN s3
            ELSE [s3 EXCEPT !.model_.reg["event-tree"][t] = s3.ret,
                            !.ret = Ref("event-tree", t)]
    IN  TbdEmplaceBack(
            Kept(Contents(Register(s, "event-tree", shell, et_node))),
            et_node)

DefineEventTree(s, et_node) ==
    LET Sequences(s1) ==
            IF ~Ok(s1) THEN s1
            ELSE AddSequences(s1, s1.ret, Find(et_node, "define-sequence"))
        RegisterTree(s3) ==
            IF ~Ok(s3) THEN s3
            ELSE Register(s3, "event-tree", s3.ret, et_node)
    IN  TbdEmplaceBack(
            RegisterTree(
                AddEach(
                    Sequences(
                        AddEach([s EXCEPT !.ret =
                                    With(ConstructPlainElement(et_node),
                                         [functional_events |-> <<>>,
                                          sequences |-> <<>>,
                                          branches |-> <<>>, forks |-> <<>>,
                                          initial_state |-> <<>>])],
                                "functional_events",
                                Find(et_node, "define-functional-event"))),
                    "branches", Find(et_node, "define-branch"))),
            et_node)

\* The loops of ProcessModelData, over the house events, the basic events
\* and the parameters in that order.
RECURSIVE ModelDataEach(_, _)
ModelDataEach(s, nodes) ==
    IF ~Ok(s) \/ nodes = <<>> THEN s
    ELSE ModelDataEach(RegisterKind(s, Head(nodes), <<>>, "public"),
                       Tail(nodes))

ProcessModelData(s, model_data) ==
    ModelDataEach(s, Find(model_data, "define-house-event")
                     \o Find(model_data, "define-basic-event")
                     \o Find(model_data, "define-parameter"))

\* The body of the four loops of ProcessInputFile over the children of the
\* root.
ProcessNode(s, node) ==
    CASE node.tag = "define-event-tree" -> DefineEventTree(s, node)
      [] node.tag = "define-fault-tree" -> DefineFaultTree(s, node)
      [] node.tag = "define-CCF-group" ->
            RegisterCcfGroup(s, node, <<>>, "public")
      [] node.tag = "model-data" -> ProcessModelData(s, node)

\* The four loops, over the event trees, the fault trees, the CCF groups
\* and the model data in that order.
RECURSIVE ProcessEach(_, _)
ProcessEach(s, nodes) ==
    IF ~Ok(s) \/ nodes = <<>> THEN s
    ELSE ProcessEach(ProcessNode(s, Head(nodes)), Tail(nodes))

KeepLastParser(s, root) ==
    IF ~Ok(s) THEN s ELSE [s EXCEPT !.parsers_ = <<RootOf(root)>>]

\* parsers_.emplace_back(std::move(parser))
KeepParser(s, root) ==
    IF ~Ok(s) THEN s ELSE [s EXCEPT !.parsers_ = Append(@, RootOf(root))]

ProcessInputFile(s, xml_file) ==
    LET root == disk[xml_file].root
    IN  IF ~disk[xml_file].valid
        THEN Throw(s, Error("ValidationError", "SchemaValidation", <<>>,
                            <<>>))
        ELSE KeepParser(
                 ProcessEach([s EXCEPT
                                !.doc_to_file_ =
                                    @ \cup {<<RootOf(root), xml_file>>},
                                !.model_.constructed = TRUE],
                             Find(root, "define-event-tree")
                             \o Find(root, "define-fault-tree")
                             \o Find(root, "define-CCF-group")
                             \o Find(root, "model-data")),
                 root)

-----------------------------------------------------------------------------
(* Formulas (the second pass).                                             *)

\* kOperatorToString
OperatorTags == {"and", "or", "atleast", "xor", "not", "nand", "nor", "null"}

\* Formula::Validate: the arity of the operator and the vote threshold.
FormulaValidate(s, formula) ==
    LET n == Len(formula.args)
        ok == CASE formula.type \in {"and", "or", "nand", "nor"} -> n >= 2
                [] formula.type \in {"not", "null"} -> n = 1
                [] formula.type = "xor" -> n = 2
                [] formula.type = "atleast" ->
                       1 <= formula.vote_number /\ formula.vote_number < n
    IN  IF ok THEN s
        ELSE Throw(s, Error("ValidationError", "InvalidFormula", <<>>,
                            <<formula.type>>))

\* The dispatch of add_arg on the type of a reference.
ResolveEvent(m, element_type, name, base_path) ==
    CASE element_type = "event" -> GetEvent(m, name, base_path)
      [] element_type = "gate" -> GetGate(m, name, base_path)
      [] element_type = "basic-event" -> GetBasicEvent(m, name, base_path)
      [] OTHER -> GetHouseEvent(m, name, base_path)

RECURSIVE GetFormula(_, _, _)
RECURSIVE AddArgs(_, _, _, _)

\* formula->AddArgument(arg)
AddArgument(s, formula, arg) ==
    [s EXCEPT !.ret = [formula EXCEPT !.args = Append(@, arg)]]

\* The type of the reference that add_arg resolves.
ElementType(node) ==
    IF GetAttributeValue(node, "type") = ""
    THEN node.tag ELSE GetAttributeValue(node, "type")

\* catch (std::out_of_range&) of add_arg: the reference is undefined.
AddResolved(s, node, formula, element_type, arg) ==
    IF arg = NoRef
    THEN Throw(s, Error("ValidationError", "Undefined", <<GetLine(node)>>,
                        <<element_type, GetAttributeValue(node, "name")>>))
    ELSE AddArgument(s, formula, arg)

AddArgGlobal(s, node, base_path, formula) ==
    AddResolved(s, node, formula, ElementType(node),
                ResolveEvent(s.model_, ElementType(node),
                             GetAttributeValue(node, "name"), <<>>))

\* The lambda add_arg of GetFormula.
AddArg(s, node, base_path, formula) ==
    LET Nested(sub) ==
            IF ~Ok(sub) THEN sub ELSE AddArgument(sub, formula, sub.ret)
    IN  IF node.tag = "constant"
        THEN AddArgument(s, formula,
                 Ref("constant",
                     IF GetAttributeValue(node, "value") = "true"
                     THEN 1 ELSE 0))
        ELSE IF GetAttributeValue(node, "name") = ""
        THEN Nested(GetFormula(s, node, base_path))
        ELSE AddResolved(s, node, formula, ElementType(node),
                 ResolveEvent(s.model_, ElementType(node),
                              GetAttributeValue(node, "name"), base_path))

AddArgs(s, nodes, base_path, formula) ==
    LET Added(s1) ==
            IF ~Ok(s1) THEN s1
            ELSE AddArgs(s1, Tail(nodes), base_path, s1.ret)
    IN  IF ~Ok(s) THEN s
        ELSE IF nodes = <<>> THEN [s EXCEPT !.ret = formula]
        ELSE Added(AddArg(s, Head(nodes), base_path, formula))

\* The operator of a formula element: a reference or a constant is a
\* pass-through.
FormulaType(formula_node) ==
    IF HasAttribute(formula_node, "name") \/ formula_node.tag = "constant"
    THEN "null" ELSE formula_node.tag

NewFormula(formula_node) ==
    [type |-> FormulaType(formula_node),
     vote_number |-> IF FormulaType(formula_node) = "atleast"
                     THEN formula_node.attrs["min"] ELSE 0,
     args |-> <<>>]

\* The arguments of GetFormula: the element itself or its children.
FormulaArgs(formula_node) ==
    IF FormulaType(formula_node) = "null"
    THEN <<formula_node>> ELSE FindAll(formula_node)

GetFormulaUnvalidated(s, formula_node, base_path) ==
    AddArgs(s, FormulaArgs(formula_node), base_path,
            NewFormula(formula_node))

GetFormula(s, formula_node, base_path) ==
    LET Validated(s1) ==
            IF ~Ok(s1) THEN s1
            ELSE AddLine(FormulaValidate(s1, s1.ret), formula_node)
    IN  Validated(AddArgs(s, FormulaArgs(formula_node), base_path,
                          NewFormula(formula_node)))

\* Define<Gate>
DefineGate(s, gate_node, g) ==
    LET SetFormula(s1) ==
            IF ~Ok(s1) THEN s1
            ELSE [s1 EXCEPT !.model_.reg["gate"][g].formula = <<s1.ret>>]
    IN  SetFormula(GetFormula(s, GetNonAttributeElements(gate_node)[1],
                              s.model_.reg["gate"][g].base_path))

-----------------------------------------------------------------------------
(* Expressions.                                                            *)

\* kExpressionExtractors_ with num_args<T>(): the number of Expression*
\* arguments of the constructor of the type of a tag; -1 stands for the
\* constructor from a vector of arguments, 0 for the types with a
\* specialisation of Extract.
ExtractorTags ==
    {"neg", "exponential", "ite", "GLM", "add", "mul", "lognormal-deviate",
     "periodic-test"}

NumArgs(tag) ==
    CASE tag = "neg" -> 1
      [] tag = "exponential" -> 2
      [] tag = "ite" -> 3
      [] tag = "GLM" -> 4
      [] tag \in {"add", "mul"} -> -1
      [] OTHER -> 0

\* register_expression: Model::Add of an expression.
RegisterExpression(s, expression) ==
    [s EXCEPT !.model_.expressions = Append(@, expression),
              !.ret = Ref("expr", Len(s.model_.expressions) + 1)]

\* check_units of GetParameter.
CheckUnits(s, expr_element, param_unit) ==
    IF GetAttributeValue(expr_element, "unit") # ""
       /\ GetAttributeValue(expr_element, "unit") # param_unit
    THEN Throw(s, Error("ValidationError", "UnitMismatch",
                        <<GetLine(expr_element)>>,
                        <<param_unit, GetAttributeValue(expr_element,
                                                        "unit")>>))
    ELSE s

\* The branch of GetParameter for a parameter that the lookup gave.
UseParameter(s, expr_element, param) ==
    IF param = NoRef
    THEN Throw(s, Error("ValidationError", "Undefined",
                        <<GetLine(expr_element)>>,
                        <<"parameter",
                          GetAttributeValue(expr_element, "name")>>))
    ELSE CheckUnits([s EXCEPT
                       !.model_.reg["parameter"][param.i].unused = FALSE,
                       !.ret = param],
                    expr_element, Deref(s.model_, param).unit)

\* Initializer::GetParameter; ret is NoRef when the element is no parameter.
GetParameter(s, expr_type, expr_element, base_path) ==
    IF expr_type = "parameter"
    THEN UseParameter(s, expr_element,
             GetParameterOf(s.model_,
                            GetAttributeValue(expr_element, "name"),
                            base_path))
    ELSE IF expr_type = "system-mission-time"
    THEN CheckUnits([s EXCEPT !.ret = Ref("mission-time", 0)],
                    expr_element, "hours")
    ELSE [s EXCEPT !.ret = NoRef]

RECURSIVE GetExpression(_, _, _)
RECURSIVE ExtractorFrom(_, _, _, _, _)
RECURSIVE ExtractAll(_, _, _, _)

\* Extractor<T, N> down to Extractor<T, 0>: the argument at N - 1 is built
\* first and put before the arguments accumulated so far.
ExtractorFrom(s, n, args, base_path, expressions) ==
    LET Built(s1) ==
            IF ~Ok(s1) THEN s1
            ELSE ExtractorFrom(s1, n - 1, args, base_path,
                               <<s1.ret>> \o expressions)
    IN  IF ~Ok(s) THEN s
        ELSE IF n = 0 THEN [s EXCEPT !.ret = expressions]
        ELSE IF n > Len(args)
        THEN Throw(s, Error("out_of_range", "at", <<>>, <<>>))
        ELSE Built(GetExpression(s, args[n], base_path))

\* Extractor<T, -1>: all the arguments, first to last.
ExtractAll(s, args, base_path, expr_args) ==
    LET Built(s1) ==
            IF ~Ok(s1) THEN s1
            ELSE ExtractAll(s1, Tail(args), base_path,
                            Append(expr_args, s1.ret))
    IN  IF ~Ok(s) THEN s
        ELSE IF args = <<>> THEN [s EXCEPT !.ret = expr_args]
        ELSE Built(GetExpression(s, Head(args), base_path))

ExtractorInOrder(s, n, args, base_path) ==
    ExtractAll(s, SubSeq(args, 1, n), base_path, <<>>)

Extractor(s, n, args, base_path) ==
    ExtractorFrom(s, n, args, base_path, <<>>)

\* The N of the Extractor<T, N> that Extract<T> applies to the arguments:
\* num_args<T>(), or what the specialisations for LognormalDeviate and
\* PeriodicTest choose; -2 where PeriodicTest throws InvalidArgument.
ExtractorArity(tag, args) ==
    CASE tag = "lognormal-deviate" -> IF Len(args) = 3 THEN 3 ELSE 2
      [] tag = "periodic-test" ->
            IF Len(args) \in {4, 5, 11} THEN Len(args) ELSE -2
      [] OTHER -> NumArgs(tag)

\* Extract<T>; ret is the list of the constructor's arguments.
Extract(s, tag, args, base_path) ==
    CASE ExtractorArity(tag, args) = -2 ->
            Throw(s, Error("InvalidArgument", "PeriodicTest", <<>>, <<>>))
      [] ExtractorArity(tag, args) = -1 ->
            ExtractAll(s, args, base_path, <<>>)
      [] OTHER -> Extractor(s, ExtractorArity(tag, args), args, base_path)

\* catch (InvalidArgument& err) { throw ValidationError(GetLine(el) + ...); }
TranslateInvalidArgument(s, el) ==
    IF s.err.kind = "InvalidArgument"
    THEN [s EXCEPT !.err.kind = "ValidationError",
                   !.err.lines = <<GetLine(el)>>]
    ELSE s

\* The expression an element constructs from the extracted arguments.
NewExpression(expr_element, args) ==
    [tag |-> expr_element.tag, args |-> args,
     line |-> expr_element.line, doc |-> expr_element.doc]

RecordExpressionSkipped(s, expr_element) == s

\* expressions_.emplace_back(expression, expr_element); validated tells
\* whether Validate() has been invoked on the expression since.
RecordExpression(s, expr_element) ==
    [s EXCEPT !.expressions_ =
        Append(@, [expression |-> s.ret, node |-> expr_element,
                   validated |-> FALSE])]

\* The last branch of GetExpression: kExpressionExtractors_.at(expr_type),
\* registration and recording of the expression it returns.
ExtractExpression(s, expr_element, base_path) ==
    LET Extracted(s2) ==
            IF ~Ok(s2) THEN TranslateInvalidArgument(s2, expr_element)
            ELSE RecordExpression(
                     RegisterExpression(s2,
                         NewExpression(expr_element, s2.ret)),
                     expr_element)
    IN  IF expr_element.tag \notin ExtractorTags
        THEN Throw(s, Error("out_of_range", "at", <<>>, <<>>))
        ELSE Extracted(Extract(s, expr_element.tag, FindAll(expr_element),
                               base_path))

GetExpression(s, expr_element, base_path) ==
    LET Parameter(s1) ==
            IF ~Ok(s1) \/ s1.ret # NoRef THEN s1
            ELSE ExtractExpression(s, expr_element, base_path)
    IN  IF expr_element.tag \in {"int", "float"}
        THEN RegisterExpression(s, NewExpression(expr_element, <<>>))
        ELSE IF expr_element.tag = "bool"
        THEN [s EXCEPT !.ret = Ref("const",
                 IF GetAttributeValue(expr_element, "value") = "true"
                 THEN 1 ELSE 0)]
        ELSE IF expr_element.tag = "pi"
        THEN [s EXCEPT !.ret = Ref("const", 2)]
        ELSE Parameter(GetParameter(s, expr_element.tag, expr_element,
                                    base_path))

-----------------------------------------------------------------------------
(* Deferred definitions of basic events, parameters, CCF groups, sequences *)
(* and event trees.                                                        *)

\* The expression of a basic event or of a parameter: the last of the
\* non-attribute elements of its definition.
LastExpression(node) ==
    GetNonAttributeElements(node)[Len(GetNonAttributeElements(node))]

\* Define<BasicEvent>
DefineBasicEvent(s, event_node, b) ==
    LET SetExpression(s1) ==
            IF ~Ok(s1) THEN s1
            ELSE [s1 EXCEPT
                    !.model_.reg["basic-event"][b].expression = <<s1.ret>>]
    IN  IF GetNonAttributeElements(event_node) = <<>> THEN s
        ELSE SetExpression(
                 GetExpression(s, LastExpression(event_node),
                     s.model_.reg["basic-event"][b].base_path))

\* Define<Parameter>
DefineParameter(s, param_node, p) ==
    LET SetExpression(s1) ==
            IF ~Ok(s1) THEN s1
            ELSE [s1 EXCEPT
                    !.model_.reg["parameter"][p].expression = <<s1.ret>>]
    IN  SetExpression(
            GetExpression(s, LastExpression(param_node),
                          s.model_.reg["parameter"][p].base_path))

\* CcfGroup::AddDistribution and CcfGroup::AddFactor with the expression
\* that ret holds; a factor is kept with its level (0: the level is the
\* position).
AddDistributionOrFactor(s, element, g) ==
    IF ~Ok(s) THEN s
    ELSE IF element.tag = "distribution"
    THEN [s EXCEPT !.model_.reg["ccf-group"][g].distribution = <<s.ret>>]
    ELSE [s EXCEPT !.model_.reg["ccf-group"][g].factors =
            Append(@, [expression |-> s.ret,
                       level |-> IF HasAttribute(element, "level")
                                 THEN element.attrs["level"] ELSE 0])]

\* DefineCcfFactor, and the branch of Define<CcfGroup> for the distribution.
DefineCcfFactor(s, factor_node, g) ==
    AddDistributionOrFactor(
        GetExpression(s, FindAll(factor_node)[1],
                      s.model_.reg["ccf-group"][g].base_path),
        factor_node, g)

\* The elements of a CCF group that carry an expression: the distribution,
\* each factor, and the factors of each list of factors, in document order.
RECURSIVE CcfExpressionNodes(_)
CcfExpressionNodes(nodes) ==
    IF nodes = <<>> THEN <<>>
    ELSE (CASE Head(nodes).tag \in {"distribution", "factor"} ->
                  <<Head(nodes)>>
            [] Head(nodes).tag = "factors" -> FindAll(Head(nodes))
            [] OTHER -> <<>>)
         \o CcfExpressionNodes(Tail(nodes))

\* Define<CcfGroup>: the loop over the children of the group.
RECURSIVE DefineCcfGroupFrom(_, _, _)
DefineCcfGroupFrom(s, nodes, g) ==
    IF ~Ok(s) \/ nodes = <<>> THEN s
    ELSE DefineCcfGroupFrom(DefineCcfFactor(s, Head(nodes), g),
                            Tail(nodes), g)

DefineCcfGroup(s, ccf_node, g) ==
    DefineCcfGroupFrom(s, CcfExpressionNodes(FindAll(ccf_node)), g)

\* GetInstruction: collect-expression.
GetInstruction(s, xml_element) ==
    GetExpression(s, FindAll(xml_element)[1], <<>>)

RECURSIVE GetInstructions(_, _, _)
GetInstructions(s, nodes, instructions) ==
    LET Got(s1) ==
            IF ~Ok(s1) THEN s1
            ELSE GetInstructions(s1, Tail(nodes),
                                 Append(instructions, s1.ret))
    IN  IF ~Ok(s) THEN s
        ELSE IF nodes = <<>> THEN [s EXCEPT !.ret = instructions]
        ELSE Got(GetInstruction(s, Head(nodes)))

\* Define<Sequence>
DefineSequence(s, xml_node, q) ==
    LET SetInstructions(s1) ==
            IF ~Ok(s1) THEN s1
            ELSE [s1 EXCEPT
                    !.model_.reg["sequence"][q].instructions = s1.ret]
    IN  SetInstructions(
            GetInstructions(s, GetNonAttributeElements(xml_node), <<>>))

\* ext::find by name in a table kept as a sequence: the position, or 0.
FindByName(table, name) ==
    IF \E k \in 1..Len(table) : table[k].name = name
    THEN CHOOSE k \in 1..Len(table) : table[k].name = name
    ELSE 0

RECURSIVE DefineBranch(_, _, _)
RECURSIVE DefinePaths(_, _, _, _)

\* The loop of DefineBranch over the paths of a fork.
DefinePaths(s, nodes, t, paths) ==
    LET Defined(s1) ==
            IF ~Ok(s1) THEN s1
            ELSE DefinePaths(s1, Tail(nodes), t,
                     Append(paths,
                        [state |-> GetAttributeValue(Head(nodes), "state"),
                         target |-> s1.ret.target,
                         instructions |-> s1.ret.instructions]))
    IN  IF ~Ok(s) THEN s
        ELSE IF nodes = <<>> THEN [s EXCEPT !.ret = paths]
        ELSE Defined(DefineBranch(s, FindAll(Head(nodes)), t))

\* The name a target element refers to, and the table it is looked up in.
TargetName(target_node) ==
    IF target_node.tag = "fork"
    THEN GetAttributeValue(target_node, "functional-event")
    ELSE GetAttributeValue(target_node, "name")

TargetKind(target_node) ==
    CASE target_node.tag = "fork" -> "functional-event"
      [] target_node.tag = "sequence" -> "sequence"
      [] OTHER -> "branch"

TargetTableOfTree(s, t, target_node) ==
    CASE target_node.tag = "fork" ->
            s.model_.reg["event-tree"][t].functional_events
      [] target_node.tag = "sequence" ->
            [k \in 1..Len(s.model_.reg["event-tree"][t].sequences) |->
                Deref(s.model_, s.model_.reg["event-tree"][t].sequences[k])]
      [] OTHER -> s.model_.reg["event-tree"][t].branches

TargetTable(s, t, target_node) ==
    CASE target_node.tag = "fork" ->
            s.model_.reg["event-tree"][t].functional_events
      [] target_node.tag = "sequence" -> s.model_.reg["sequence"]
      [] OTHER -> s.model_.reg["event-tree"][t].branches

\* The Fork of a fork element, kept by the event tree, with the paths that
\* ret holds.
AddFork(s, t, fe) ==
    IF ~Ok(s) THEN s
    ELSE [s EXCEPT
            !.model_.reg["event-tree"][t].forks =
                Append(@, [functional_event |-> fe, paths |-> s.ret]),
            !.ret = [k |-> "fork",
                     i |-> Len(s.model_.reg["event-tree"][t].forks) + 1]]

\* The target of a branch: a fork, a sequence or a named branch.
DefineTarget(s, target_node, t, found) ==
    IF found = 0
    THEN Throw(s, Error("ValidationError", "Undefined",
                        <<GetLine(target_node)>>,
                        <<TargetKind(target_node), TargetName(target_node)>>))
    ELSE IF target_node.tag = "fork"
    THEN AddFork(DefinePaths(s, Find(target_node, "path"), t, <<>>), t, found)
    ELSE [s EXCEPT !.ret = [k |-> TargetKind(target_node), i |-> found]]

\* DefineBranch: ret is the target and the instructions given to the branch.
DefineBranch(s, xml_nodes, t) ==
    LET Target(s3) ==
            LET Instructions(s4) ==
                    IF ~Ok(s4) THEN s4
                    ELSE [s4 EXCEPT !.ret = [target |-> s3.ret,
                                             instructions |-> s4.ret]]
            IN  IF ~Ok(s3) THEN s3
                ELSE Instructions(
                         GetInstructions(s3,
                             SubSeq(xml_nodes, 1, Len(xml_nodes) - 1), <<>>))
    IN  Target(DefineTarget(s, xml_nodes[Len(xml_nodes)], t,
                   FindByName(TargetTable(s, t, xml_nodes[Len(xml_nodes)]),
                              TargetName(xml_nodes[Len(xml_nodes)]))))

\* The loop of Define<EventTree> over the define-branch nodes, the iterator
\* over the branches of the tree advancing with it.
RECURSIVE DefineBranches(_, _, _, _)
DefineBranches(s, nodes, t, it) ==
    LET Defined(s1) ==
            IF ~Ok(s1) THEN s1
            ELSE DefineBranches(
                    [s1 EXCEPT
                       !.model_.reg["event-tree"][t].branches[it].target =
                           <<s1.ret.target>>,
                       !.model_.reg["event-tree"][t].branches[it]
                           .instructions = s1.ret.instructions],
                    Tail(nodes), t, it + 1)
    IN  IF ~Ok(s) \/ nodes = <<>> THEN s
        ELSE Defined(DefineBranch(s, GetNonAttributeElements(Head(nodes)),
                                  t))

\* Define<EventTree>
DefineEventTreeBody(s, et_node, t) ==
    LET SetInitialState(s2) ==
            IF ~Ok(s2) THEN s2
            ELSE [s2 EXCEPT !.model_.reg["event-tree"][t].initial_state =
                                <<s2.ret>>]
        InitialState(s1) ==
            IF ~Ok(s1) THEN s1
            ELSE SetInitialState(
                     DefineBranch(s1,
                         FindAll(Find(et_node, "initial-state")[1]), t))
    IN  InitialState(DefineBranches(s, Find(et_node, "define-branch"), t, 1))

\* The visitor of ProcessTbdElements: Define of the kind of the entity.
Define(s, tbd_element) ==
    CASE tbd_element.ref.kind = "gate" ->
            DefineGate(s, tbd_element.node, tbd_element.ref.i)
      [] tbd_element.ref.kind = "basic-event" ->
            DefineBasicEvent(s, tbd_element.node, tbd_element.ref.i)
      [] tbd_element.ref.kind = "parameter" ->
            DefineParameter(s, tbd_element.node, tbd_element.ref.i)
      [] tbd_element.ref.kind = "ccf-group" ->
            DefineCcfGroup(s, tbd_element.node, tbd_element.ref.i)
      [] tbd_element.ref.kind = "sequence" ->
            DefineSequence(s, tbd_element.node, tbd_element.ref.i)
      [] tbd_element.ref.kind = "event-tree" ->
            DefineEventTreeBody(s, tbd_element.node, tbd_element.ref.i)

\* doc_to_file_.at(root)
DocToFile(s, root) ==
    (CHOOSE p \in s.doc_to_file_ : p[1] = root)[2]

\* The body of the loop of ProcessTbdElements.
ProcessTbdElement(s, tbd_element) ==
    LET InFile(s1) ==
            IF s1.err.kind = "ValidationError"
            THEN AddFile(s1, DocToFile(s1, RootOf(tbd_element.node)))
            ELSE s1
    IN  InFile(Define(s, tbd_element))

-----------------------------------------------------------------------------
(* Cycle detection: a depth-first search that marks a node temporarily     *)
(* while its successors are searched and permanently afterwards, and that  *)
(* returns the path of the cycle it closes.  G maps a node to the sequence *)
(* of its successors.                                                      *)

RECURSIVE DetectCycle(_, _, _)
RECURSIVE ContinueConnector(_, _, _)

DetectCycle(G, marks, n) ==
    IF marks[n] = "clear"
    THEN LET r == ContinueConnector(G, [marks EXCEPT ![n] = "temporary"],
                                    G[n])
         IN  IF r.cycle # <<>>
             THEN [marks |-> r.marks,
                   cycle |-> IF Len(r.cycle) = 1
                                \/ r.cycle[Len(r.cycle)] # r.cycle[1]
                             THEN Append(r.cycle, n) ELSE r.cycle]
             ELSE [marks |-> [r.marks EXCEPT ![n] = "permanent"],
                   cycle |-> <<>>]
    ELSE IF marks[n] = "temporary"
    THEN [marks |-> marks, cycle |-> <<n>>]
    ELSE [marks |-> marks, cycle |-> <<>>]

ContinueConnector(G, marks, succ) ==
    IF succ = <<>> THEN [marks |-> marks, cycle |-> <<>>]
    ELSE LET r == DetectCycle(G, marks, Head(succ))
         IN  IF r.cycle # <<>> THEN r
             ELSE ContinueConnector(G, r.marks, Tail(succ))

\* The loop "for (node : nodes) if (DetectCycle(node, &cycle)) throw".
RECURSIVE DetectCycles(_, _, _, _)
DetectCycles(G, marks, n, last) ==
    IF n > last THEN [marks |-> marks, cycle |-> <<>>, in |-> 0]
    ELSE LET r == DetectCycle(G, marks, n)
         IN  IF r.cycle # <<>>
             THEN [marks |-> r.marks, cycle |-> r.cycle, in |-> n]
             ELSE DetectCycles(G, r.marks, n + 1, last)

IsFormula(a) == "args" \in DOMAIN a

RECURSIVE Concat(_)
Concat(ss) == IF ss = <<>> THEN <<>> ELSE Head(ss) \o Concat(Tail(ss))

\* The gates among the arguments of a formula, then those of its nested
\* formulas.
RECURSIVE GateArgs(_)
GateArgs(formula) ==
    LET gates == SelectSeq(formula.args,
                           LAMBDA a : ~IsFormula(a) /\ a.kind = "gate")
        formulas == SelectSeq(formula.args, LAMBDA a : IsFormula(a))
    IN  [k \in 1..Len(gates) |-> gates[k].i]
        \o Concat([k \in 1..Len(formulas) |-> GateArgs(formulas[k])])

GateGraph(m) ==
    [g \in 1..Len(m.reg["gate"]) |->
        IF m.reg["gate"][g].formula = <<>> THEN <<>>
        ELSE GateArgs(m.reg["gate"][g].formula[1])]

\* The parameters an expression refers to, through its arguments.
RECURSIVE ParameterArgs(_, _)
ParameterArgs(m, e) ==
    IF e.kind = "parameter" THEN <<e.i>>
    ELSE IF e.kind = "expr"
    THEN Concat([k \in 1..Len(m.expressions[e.i].args) |->
                    ParameterArgs(m, m.expressions[e.i].args[k])])
    ELSE <<>>

ParameterGraph(m) ==
    [p \in 1..Len(m.reg["parameter"]) |->
        IF m.reg["parameter"][p].expression = <<>> THEN <<>>
        ELSE ParameterArgs(m, m.reg["parameter"][p].expression[1])]

\* The named branches a branch target leads to, through the paths of forks.
RECURSIVE BranchArgs(_, _)
BranchArgs(event_tree, target) ==
    IF target.k = "branch" THEN <<target.i>>
    ELSE IF target.k = "fork"
    THEN Concat([k \in 1..Len(event_tree.forks[target.i].paths) |->
                    BranchArgs(event_tree,
                               event_tree.forks[target.i].paths[k].target)])
    ELSE <<>>

BranchGraph(event_tree) ==
    [b \in 1..Len(event_tree.branches) |->
        IF event_tree.branches[b].target = <<>> THEN <<>>
        ELSE BranchArgs(event_tree, event_tree.branches[b].target[1])]

Marks(table) == [k \in 1..Len(table) |-> table[k].mark]

SetMarks(table, marks) ==
    [k \in 1..Len(table) |-> [table[k] EXCEPT !.mark = marks[k]]]

NamesOf(table, cycle) == [k \in 1..Len(cycle) |-> table[cycle[k]].name]

-----------------------------------------------------------------------------
(* Validation and setup.                                                   *)

CycleError(table, r) ==
    Error("CycleError", "cycle", <<>>,
          <<table[r.in].name>> \o NamesOf(table, r.cycle))

\* The first loop of ValidateInitialization: the gates.
ValidateGates(s) ==
    LET Detected(r) ==
            IF r.cycle # <<>>
            THEN Throw([s EXCEPT !.model_.reg["gate"] = SetMarks(@, r.marks)],
                       CycleError(s.model_.reg["gate"], r))
            ELSE [s EXCEPT !.model_.reg["gate"] = SetMarks(@, r.marks)]
    IN  IF ~Ok(s) THEN s
        ELSE Detected(DetectCycles(GateGraph(s.model_),
                                   Marks(s.model_.reg["gate"]), 1,
                                   Len(s.model_.reg["gate"])))

ValidateBranchesSkipped(s, t) == s

\* The second loop of ValidateInitialization: the branches of each event
\* tree.
RECURSIVE ValidateBranches(_, _)
ValidateBranches(s, t) ==
    LET Detected(r) ==
            IF r.cycle # <<>>
            THEN Throw([s EXCEPT !.model_.reg["event-tree"][t].branches =
                                    SetMarks(@, r.marks)],
                       CycleError(s.model_.reg["event-tree"][t].branches, r))
            ELSE ValidateBranches(
                     [s EXCEPT !.model_.reg["event-tree"][t].branches =
                                  SetMarks(@, r.marks)],
                     t + 1)
    IN  IF ~Ok(s) \/ t > Len(s.model_.reg["event-tree"]) THEN s
        ELSE Detected(DetectCycles(
                 BranchGraph(s.model_.reg["event-tree"][t]),
                 Marks(s.model_.reg["event-tree"][t].branches), 1,
                 Len(s.model_.reg["event-tree"][t].branches)))

\* The names of the basic events without an expression.
MissingExpressions(events) ==
    [k \in 1..Len(SelectSeq(events, LAMBDA e : e.expression = <<>>)) |->
        SelectSeq(events, LAMBDA e : e.expression = <<>>)[k].name]

ValidateFirstBasicEventExpression(s, settings) ==
    IF ~Ok(s) THEN s
    ELSE IF settings.probability_analysis
            /\ MissingExpressions(s.model_.reg["basic-event"]) # <<>>
    THEN Throw(s, Error("ValidationError", "NoExpression", <<>>,
                        <<MissingExpressions(s.model_.reg["basic-event"])[1]>>))
    ELSE s

\* The basic events without an expression, when probabilities are analysed.
ValidateBasicEventExpressions(s, settings) ==
    IF ~Ok(s) THEN s
    ELSE IF settings.probability_analysis
            /\ MissingExpressions(s.model_.reg["basic-event"]) # <<>>
    THEN Throw(s, Error("ValidationError", "NoExpression", <<>>,
                        MissingExpressions(s.model_.reg["basic-event"])))
    ELSE s

ValidateParametersSkipped(s) == s

\* The first loop of ValidateExpressions: the parameters.
ValidateParameters(s) ==
    LET Detected(r) ==
            IF r.cycle # <<>>
            THEN Throw([s EXCEPT !.model_.reg["parameter"] =
                                    SetMarks(@, r.marks)],
                       CycleError(s.model_.reg["parameter"], r))
            ELSE [s EXCEPT !.model_.reg["parameter"] = SetMarks(@, r.marks)]
    IN  IF ~Ok(s) THEN s
        ELSE Detected(DetectCycles(ParameterGraph(s.model_),
                                   Marks(s.model_.reg["parameter"]), 1,
                                   Len(s.model_.reg["parameter"])))

\* Expression::Validate: the domain of the arguments of an expression, the
\* outcome of which the element states.
ExpressionValidate(s, expression) ==
    IF GetAttributeValue(expression.node, "domain") = "invalid"
    THEN Throw(s, Error("InvalidArgument", "domain", <<>>, <<>>))
    ELSE s

\* catch (InvalidArgument& err) of ValidateExpressions: a ValidationError
\* with the file and the line of the expression.
TranslateInvalidExpression(s, expression) ==
    IF s.err.kind = "InvalidArgument"
    THEN [s EXCEPT
            !.err.kind = "ValidationError",
            !.err.lines = <<GetLine(expression.node)>>,
            !.err.files = <<DocToFile(s, RootOf(expression.node))>>]
    ELSE s

\* The second loop of ValidateExpressions: the recorded expressions.
RECURSIVE ValidateRecorded(_, _)
ValidateRecorded(s, k) ==
    IF ~Ok(s) \/ k > Len(s.expressions_) THEN s
    ELSE ValidateRecorded(
             TranslateInvalidExpression(
                 ExpressionValidate(
                     [s EXCEPT !.expressions_[k].validated = TRUE],
                     s.expressions_[k]),
                 s.expressions_[k]),
             k + 1)

\* The entities of a kind that fail their Validate(); among the basic
\* events only those with an expression are validated.
InvalidEntities(m, kind) ==
    SelectSeq(m.reg[kind],
              LAMBDA e : ~e.valid /\ (kind = "basic-event"
                                         => e.expression # <<>>))

\* The last loops of ValidateExpressions: Validate() of the CCF groups, then
\* of the basic events that have an expression; each loop gathers the
\* invalid ones into one error.
ValidateEntities(s, kind, msg) ==
    IF ~Ok(s) THEN s
    ELSE IF InvalidEntities(s.model_, kind) # <<>>
    THEN Throw(s, Error("ValidationError", msg, <<>>,
                        [k \in 1..Len(InvalidEntities(s.model_, kind)) |->
                            InvalidEntities(s.model_, kind)[k].name]))
    ELSE s

ValidateExpressionsEarly(s) ==
    ValidateEntities(
        ValidateEntities(ValidateParameters(ValidateRecorded(s, 1)),
                         "ccf-group", "InvalidCcfGroups"),
        "basic-event", "InvalidBasicEvents")

ValidateExpressions(s) ==
    ValidateEntities(
        ValidateEntities(ValidateRecorded(ValidateParameters(s), 1),
                         "ccf-group", "InvalidCcfGroups"),
        "basic-event", "InvalidBasicEvents")

ValidateInitializationExpressionsFirst(s, settings) ==
    ValidateBasicEventExpressions(
        ValidateBranches(ValidateGates(ValidateExpressions(s)), 1),
        settings)

ValidateInitialization(s, settings) ==
    ValidateExpressions(
        ValidateBasicEventExpressions(ValidateBranches(ValidateGates(s), 1),
                                      settings))

\* SetupForAnalysis: the marks of the gates are cleared.
SetupForAnalysis(s) ==
    LET gates == s.model_.reg["gate"]
    IN  [s EXCEPT !.model_.reg["gate"] =
            [k \in 1..Len(gates) |-> [gates[k] EXCEPT !.mark = "clear"]]]

-----------------------------------------------------------------------------
(* Pre-flight checks.                                                      *)

\* CheckFileExistence: the first path that does not exist, 0 if all exist.
FirstMissing(files) ==
    IF \E k \in 1..Len(files) : ~Exists(files[k])
    THEN CHOOSE k \in 1..Len(files) :
            ~Exists(files[k]) /\ \A j \in 1..(k - 1) : Exists(files[j])
    ELSE 0

CheckFirstFileExistence(s, files) ==
    IF ~Exists(files[1])
    THEN Throw(s, Error("IOError", "File doesn't exist", <<>>, <<files[1]>>))
    ELSE s

CheckFileExistence(s, files) ==
    IF FirstMissing(files) # 0
    THEN Throw(s, Error("IOError", "File doesn't exist", <<>>,
                        <<files[FirstMissing(files)]>>))
    ELSE s

\* boost::sort(files, comparator): an order of the positions of the files
\* by canonical path; the order among equal canonical paths is unspecified.
SortedOrders(files) ==
    {p \in [1..Len(files) -> 1..Len(files)] :
        /\ \A i, j \in 1..Len(files) : i # j => p[i] # p[j]
        /\ \A i, j \in 1..Len(files) :
              i < j => Canonical(files[p[i]]) <= Canonical(files[p[j]])}

\* boost::adjacent_find: the first position equal to its successor, 0 for
\* files.end().
AdjacentFind(files, p) ==
    LET hits == {k \in 1..(Len(files) - 1) :
                    Canonical(files[p[k]]) = Canonical(files[p[k + 1]])}
    IN  IF hits = {} THEN 0 ELSE CHOOSE k \in hits : \A j \in hits : k <= j

UpperBoundEnd(files, p, it) == Len(files) + 1

\* std::upper_bound(it, files.end(), *it, comparator): the first position
\* after it whose canonical path is greater.
UpperBound(files, p, it) ==
    LET after == {k \in it..Len(files) :
                    Canonical(files[p[it]]) < Canonical(files[p[k]])}
    IN  IF after = {} THEN Len(files) + 1
        ELSE CHOOSE k \in after : \A j \in after : k <= j

\* CheckDuplicateFiles, given the order the sort left the files in.
CheckDuplicateFiles(s, files, p) ==
    LET it == AdjacentFind(files, p)
        it_end == UpperBound(files, p, it)
    IN  IF it = 0 THEN s
        ELSE Throw(s, [Error("DuplicateArgumentError",
                             "Duplicate input files", <<>>,
                             [k \in 1..(it_end - it) |->
                                 files[p[it + k - 1]]])
                       EXCEPT !.posix = Canonical(files[p[it]])])

-----------------------------------------------------------------------------
(* The constructor, step by step.                                          *)

\* The fields of the Initializer as the state the operations thread.
This ==
    [model_ |-> model_, tbd_ |-> tbd_, expressions_ |-> expressions_,
     doc_to_file_ |-> doc_to_file_, parsers_ |-> parsers_, err |-> NoError,
     ret |-> NoRef]

\* The step leaves the fields as s has them and goes on at next, or leaves
\* the constructor with the exception of s.
Becomes(s, next) ==
    /\ model_' = s.model_
    /\ tbd_' = s.tbd_
    /\ expressions_' = s.expressions_
    /\ doc_to_file_' = s.doc_to_file_
    /\ parsers_' = s.parsers_
    /\ err' = s.err
    /\ pc' = IF Ok(s) THEN next ELSE "error"

DoCheckFileExistence ==
    /\ pc = "CheckFileExistence"
    /\ Becomes(CheckFileExistence(This, xml_files), "CheckDuplicateFiles")
    /\ UNCHANGED << xml_files, disk, settings_, file_i, tbd_i >>

DoCheckDuplicateFiles ==
    /\ pc = "CheckDuplicateFiles"
    /\ \E p \in SortedOrders(xml_files) :
          Becomes(CheckDuplicateFiles(This, xml_files, p), "ProcessInputFile")
    /\ UNCHANGED << xml_files, disk, settings_, file_i, tbd_i >>

\* The pending items from position k on, defined at once.
RECURSIVE DefinePending(_, _)
DefinePending(s, k) ==
    IF ~Ok(s) \/ k > Len(s.tbd_) THEN s
    ELSE DefinePending(ProcessTbdElement(s, s.tbd_[k]), k + 1)

\* A loader of one pass: the entities of a file are defined as soon as the
\* file is registered.
DoProcessInputFileDefining ==
    /\ pc = "ProcessInputFile"
    /\ file_i < Len(xml_files)
    /\ Becomes(DefinePending(AddFile(ProcessInputFile(This,
                                         xml_files[file_i + 1]),
                                     xml_files[file_i + 1]),
                             Len(tbd_) + 1),
               IF file_i + 1 = Len(xml_files)
               THEN "ProcessTbdElements" ELSE "ProcessInputFile")
    /\ file_i' = file_i + 1
    /\ UNCHANGED << xml_files, disk, settings_, tbd_i >>

\* One turn of the loop of ProcessInputFiles over the files.
DoProcessInputFile ==
    /\ pc = "ProcessInputFile"
    /\ file_i < Len(xml_files)
    /\ LET xml_file == xml_files[file_i + 1]
       IN  Becomes(AddFile(ProcessInputFile(This, xml_file), xml_file),
                   IF file_i + 1 = Len(xml_files)
                   THEN "ProcessTbdElements" ELSE "ProcessInputFile")
    /\ file_i' = file_i + 1
    /\ UNCHANGED << xml_files, disk, settings_, tbd_i >>

\* One turn of the loop of ProcessTbdElements, or its end.
DoProcessTbdElements ==
    /\ pc = "ProcessTbdElements"
    /\ IF tbd_i < Len(tbd_)
       THEN /\ Becomes(ProcessTbdElement(This, tbd_[tbd_i + 1]),
                       "ProcessTbdElements")
            /\ tbd_i' = tbd_i + 1
       ELSE /\ Becomes(This, "ValidateInitialization")
            /\ tbd_i' = tbd_i
    /\ UNCHANGED << xml_files, disk, settings_, file_i >>

DoValidateInitialization ==
    /\ pc = "ValidateInitialization"
    /\ Becomes(ValidateInitialization(This, settings_), "SetupForAnalysis")
    /\ UNCHANGED << xml_files, disk, settings_, file_i, tbd_i >>

DoSetupForAnalysis ==
    /\ pc = "SetupForAnalysis"
    /\ Becomes(SetupForAnalysis(This), "done")
    /\ UNCHANGED << xml_files, disk, settings_, file_i, tbd_i >>

Next ==
    \/ DoCheckFileExistence
    \/ DoCheckDuplicateFiles
    \/ DoProcessInputFile
    \/ DoProcessTbdElements
    \/ DoValidateInitialization
    \/ DoSetupForAnalysis

\* The state after the member initialisers of the constructor, for the
\* arguments files and settings and the content docs of the paths.
InitWith(files, docs, settings) ==
    /\ xml_files = files
    /\ disk = docs
    /\ settings_ = settings
    /\ pc = "CheckFileExistence"
    /\ file_i = 0
    /\ tbd_i = 0
    /\ model_ = EmptyModel
    /\ tbd_ = <<>>
    /\ expressions_ = <<>>
    /\ doc_to_file_ = {}
    /\ parsers_ = <<>>
    /\ err = NoError

-----------------------------------------------------------------------------
(* Input documents.                                                        *)

NoAttrs == <<>>

Document(path, kids) ==
    [valid |-> TRUE, root |-> El(path, "opsa-mef", NoAttrs, 1, kids)]

Named(doc, tag, name, line, kids) ==
    El(doc, tag, [name |-> name], line, kids)

Plain(doc, tag, line, kids) == El(doc, tag, NoAttrs, line, kids)

NameOf(prefix, i) == prefix \o ToString(i)

NextOf(i) == (i % MaxNodes) + 1

\* The ways a generated gate, parameter or branch refers to others: to
\* nothing, to the next one, to itself, to the next one through a nested
\* element, or to a name that is not declared.
Shapes == {"leaf", "next", "self", "nested", "undefined"}

GateFormula(doc, i, shape, line) ==
    CASE shape = "leaf" -> Named(doc, "basic-event", "e1", line, <<>>)
      [] shape = "next" ->
            Named(doc, "gate", NameOf("g", NextOf(i)), line, <<>>)
      [] shape = "self" -> Named(doc, "gate", NameOf("g", i), line, <<>>)
      [] shape = "nested" ->
            Plain(doc, "and", line,
                  << Named(doc, "basic-event", "e1", line + 1, <<>>),
                     Plain(doc, "not", line + 2,
                           << Named(doc, "gate", NameOf("g", NextOf(i)),
                                    line + 3, <<>>) >>) >>)
      [] shape = "undefined" ->
            Plain(doc, "or", line,
                  << Named(doc, "basic-event", "e1", line + 1, <<>>),
                     Named(doc, "gate", "gz", line + 2, <<>>) >>)

\* define-fault-tree FTi with the gate gi.
FaultTreeOf(doc, i, shape) ==
    Named(doc, "define-fault-tree", NameOf("FT", i), 10 * i,
          << Named(doc, "define-gate", NameOf("g", i), 10 * i + 1,
                   << GateFormula(doc, i, shape, 10 * i + 2) >>) >>)

Float(doc, line) == El(doc, "float", [value |-> "1"], line, <<>>)

ParameterExpression(doc, i, shape, line) ==
    CASE shape = "leaf" -> Float(doc, line)
      [] shape = "next" ->
            Named(doc, "parameter", NameOf("p", NextOf(i)), line, <<>>)
      [] shape = "self" -> Named(doc, "parameter", NameOf("p", i), line, <<>>)
      [] shape = "nested" ->
            Plain(doc, "neg", line,
                  << Plain(doc, "add", line + 1,
                           << Named(doc, "parameter", NameOf("p", NextOf(i)),
                                    line + 2, <<>>),
                              Float(doc, line + 3) >>) >>)
      [] shape = "undefined" -> Named(doc, "parameter", "pz", line, <<>>)

ParameterOf(doc, i, shape) ==
    Named(doc, "define-parameter", NameOf("p", i), 100 + 10 * i,
          << ParameterExpression(doc, i, shape, 100 + 10 * i + 1) >>)

BranchTarget(doc, i, shape, line) ==
    CASE shape = "leaf" -> Named(doc, "sequence", "S", line, <<>>)
      [] shape = "next" ->
            Named(doc, "branch", NameOf("b", NextOf(i)), line, <<>>)
      [] shape = "self" -> Named(doc, "branch", NameOf("b", i), line, <<>>)
      [] shape = "nested" ->
            El(doc, "fork", ("functional-event" :> "F"), line,
               << El(doc, "path", [state |-> "s1"], line + 1,
                     << Named(doc, "sequence", "S", line + 2, <<>>) >>),
                  El(doc, "path", [state |-> "s2"], line + 3,
                     << Named(doc, "branch", NameOf("b", NextOf(i)),
                              line + 4, <<>>) >>) >>)
      [] shape = "undefined" -> Named(doc, "branch", "bz", line, <<>>)

BranchOf(doc, i, shape) ==
    Named(doc, "define-branch", NameOf("b", i), 200 + 10 * i,
          << BranchTarget(doc, i, shape, 200 + 10 * i + 1) >>)

\* define-event-tree ET with the functional event F, the sequence S, the
\* branches b1.. and the initial state at b1.
EventTreeOf(doc, shapes) ==
    Named(doc, "define-event-tree", "ET", 190,
          << Named(doc, "define-functional-event", "F", 191, <<>>),
             Named(doc, "define-sequence", "S", 192, <<>>) >>
          \o [i \in 1..MaxNodes |-> BranchOf(doc, i, shapes[i])]
          \o << Plain(doc, "initial-state", 300,
                      << Named(doc, "branch", "b1", 301, <<>>) >>) >>)

\* The content of a file of a generated model: the fault trees and the
\* parameters with a position in own, the event tree if tree, and the basic
\* event e1 if event.
GraphDocument(doc, own, tree, event, gs, ps, bs) ==
    LET mine == SelectSeq([i \in 1..MaxNodes |-> i], LAMBDA i : i \in own)
    IN  Document(doc,
          (IF tree THEN << EventTreeOf(doc, bs) >> ELSE <<>>)
          \o [k \in 1..Len(mine) |-> FaultTreeOf(doc, mine[k], gs[mine[k]])]
          \o << Plain(doc, "model-data", 90,
                   (IF event
                    THEN << Named(doc, "define-basic-event", "e1", 91,
                                  <<>>) >>
                    ELSE <<>>)
                   \o [k \in 1..Len(mine) |->
                          ParameterOf(doc, mine[k], ps[mine[k]])]) >>)

\* The files of a generated model: the first k gates and parameters are in
\* a.xml with the event tree, the others in b.xml with the basic event; a
\* path has the content of its canonical path.
GraphDisk(k, gs, ps, bs) ==
    [p \in Paths |->
        IF Canonical(p) = 1
        THEN GraphDocument(p, 1..k, TRUE, FALSE, gs, ps, bs)
        ELSE GraphDocument(p, (k + 1)..MaxNodes, FALSE, TRUE, gs, ps, bs)]

AllLeaf == [i \in 1..MaxNodes |-> "leaf"]

\* The generated models: the shapes of the gates, of the parameters or of
\* the branches vary, or all three vary alike.
GraphShapes ==
    LET all == [1..MaxNodes -> Shapes]
    IN  {<<gs, AllLeaf, AllLeaf>> : gs \in all}
        \cup {<<AllLeaf, ps, AllLeaf>> : ps \in all}
        \cup {<<AllLeaf, AllLeaf, bs>> : bs \in all}
        \cup {<<xs, xs, xs>> : xs \in all}

Init ==
    \E k \in 0..MaxNodes, sh \in GraphShapes,
       files \in {<<"a.xml", "b.xml">>, <<"b.xml", "a.xml">>} :
        InitWith(files, GraphDisk(k, sh[1], sh[2], sh[3]),
                 [probability_analysis |-> FALSE])

Spec == Init /\ [][Next]_vars

-----------------------------------------------------------------------------
(* Input file lists: the paths supplied to the constructor vary, the       *)
(* content of the files is one model without a defect, b.xml with or       *)
(* without a document that passes the schema validation.                   *)

FileLists == UNION {[1..n -> Paths] : n \in 1..MaxFiles}

FilesDisk(b_valid) ==
    [p \in Paths |->
        IF Canonical(p) = 1
        THEN GraphDisk(1, AllLeaf, AllLeaf, AllLeaf)[p]
        ELSE [GraphDisk(1, AllLeaf, AllLeaf, AllLeaf)[p]
                EXCEPT !.valid = b_valid]]

InitFiles ==
    \E files \in FileLists, b_valid \in BOOLEAN :
        InitWith(files, FilesDisk(b_valid), [probability_analysis |-> FALSE])

SpecFiles == InitFiles /\ [][Next]_vars

-----------------------------------------------------------------------------
(* Scoped models: a fault tree FT with the components P (which holds the   *)
(* component D) and Q, a basic event x declared or not in FT, P, Q and the *)
(* model data with a role attribute or without, and a gate in each         *)
(* container that refers to x.                                             *)

Decl(doc, tag, name, role, line, kids) ==
    El(doc, tag,
       IF role = "" THEN [name |-> name] ELSE [name |-> name, role |-> role],
       line, kids)

Opt(c, el) == IF c THEN <<el>> ELSE <<>>

\* define-gate name with the formula "basic-event x".
GateOnX(doc, name, line) ==
    Named(doc, "define-gate", name, line,
          << Named(doc, "basic-event", "x", line + 1, <<>>) >>)

CcfGroupOf(doc, name, role, member, line) ==
    Decl(doc, "define-CCF-group", name, role, line,
         << Plain(doc, "members", line + 1,
                  << Named(doc, "basic-event", member, line + 2, <<>>) >>) >>)

ScopeFaultTree(doc, v) ==
    Named(doc, "define-fault-tree", "FT", 10,
      Opt(v.ft # "absent",
          Decl(doc, "define-basic-event", "x", v.ft, 11, <<>>))
      \o << GateOnX(doc, "top", 12),
            Decl(doc, "define-component", "P", v.rp, 20,
              Opt(v.p # "absent",
                  Decl(doc, "define-basic-event", "x", v.p, 21, <<>>))
              \o << GateOnX(doc, "gp", 22),
                    Named(doc, "define-parameter", "q", 24,
                          << Float(doc, 25) >>),
                    Named(doc, "define-house-event", "h", 26, <<>>),
                    CcfGroupOf(doc, "ccf", v.ccf, "m", 27),
                    Named(doc, "define-component", "D", 30,
                          << GateOnX(doc, "gd", 32) >>) >>),
            Decl(doc, "define-component", "Q", v.rq, 40,
              Opt(v.q # "absent",
                  Decl(doc, "define-basic-event", "x", v.q, 41, <<>>))
              \o << GateOnX(doc, "gq", 42) >>) >>)

\* b.xml: a second fault tree that declares the gate top again or not, a
\* CCF group at the top level, and the model data.
ScopeOther(doc, v) ==
    Opt(v.dup,
        Named(doc, "define-fault-tree", "FT2", 50,
              << GateOnX(doc, "top", 52) >>))
    \o << CcfGroupOf(doc, "ccf2", "", "n", 60),
          Plain(doc, "model-data", 90,
                Opt(v.md, Named(doc, "define-basic-event", "x", 91, <<>>))
                \o << Named(doc, "define-parameter", "r", 92,
                            << Float(doc, 93) >>) >>) >>

ScopeDisk(v) ==
    [p \in Paths |->
        IF Canonical(p) = 1
        THEN Document(p, << ScopeFaultTree(p, v) >>)
        ELSE Document(p, ScopeOther(p, v))]

ScopeVariants ==
    [ft : {"absent", "", "private", "public"},
     p : {"absent", "", "private", "public"},
     q : {"absent", "private"},
     md : BOOLEAN,
     rp : {"", "private", "public"},
     rq : {"", "private"},
     ccf : {"", "private"},
     dup : BOOLEAN]

InitScope ==
    \E v \in ScopeVariants,
       files \in {<<"a.xml", "b.xml">>, <<"b.xml", "a.xml">>} :
        InitWith(files, ScopeDisk(v), [probability_analysis |-> FALSE])

SpecScope == InitScope /\ [][Next]_vars

-----------------------------------------------------------------------------
(* Expressions: a parameter whose expression has one of the tags of the    *)
(* factory and a number of children, at the top or under a neg.            *)

MaxArgs == 11

Floats(doc, n, line) == [k \in 1..n |-> Float(doc, line + k)]

ExprElement(doc, tag, n, nested) ==
    IF nested
    THEN Plain(doc, "neg", 110, << Plain(doc, tag, 120, Floats(doc, n, 120)) >>)
    ELSE Plain(doc, tag, 120, Floats(doc, n, 120))

ExprDisk(tag, n, nested) ==
    [p \in Paths |->
        Document(p,
            << Plain(p, "model-data", 90,
                     << Named(p, "define-parameter", "p1", 100,
                              << ExprElement(p, tag, n, nested) >>) >>) >>)]

InitExpr ==
    \E tag \in ExtractorTags \cup {"unknown"}, n \in 0..MaxArgs,
       nested \in BOOLEAN :
        InitWith(<<"a.xml">>, ExprDisk(tag, n, nested),
                 [probability_analysis |-> FALSE])

SpecExpr == InitExpr /\ [][Next]_vars

-----------------------------------------------------------------------------
(* The input as the documents state it, read without the loader.           *)

Range(f) == {f[k] : k \in DOMAIN f}

RECURSIVE Descendants(_)
Descendants(el) ==
    Concat([k \in 1..Len(el.kids) |->
               <<el.kids[k]>> \o Descendants(el.kids[k])])

\* The elements of the supplied files.
InputElements ==
    UNION {Range(Descendants(disk[xml_files[k]].root)) :
              k \in 1..Len(xml_files)}

NameIn(el) == GetAttributeValue(el, "name")

\* An element of the tag declares the name in one of the supplied files.
Declared(tag, name) ==
    \E el \in InputElements : el.tag = tag /\ NameIn(el) = name

ReferenceTags == {"gate", "basic-event", "parameter", "branch", "sequence"}

\* Every reference of the input names a declared entity of its kind.
InputResolves ==
    \A el \in InputElements :
        el.tag \in ReferenceTags => Declared("define-" \o el.tag, NameIn(el))

\* The edges of a reference graph of the input: from the name of a
\* definition to the names its element refers to, at any depth.
InputEdges(def_tag, ref_tag) ==
    UNION {{<<NameIn(el), NameIn(d)>> :
               d \in {x \in Range(Descendants(el)) : x.tag = ref_tag}} :
           el \in {x \in InputElements : x.tag = def_tag}}

RECURSIVE Closure(_, _)
Closure(E, n) ==
    IF n = 0 THEN E
    ELSE Closure(E \cup {<<z[1][1], z[2][2]>> :
                            z \in {y \in E \X E : y[1][2] = y[2][1]}},
                 n - 1)

Cyclic(E) == \E e \in Closure(E, Cardinality(E)) : e[1] = e[2]

GateEdges == InputEdges("define-gate", "gate")

ParameterEdges == InputEdges("define-parameter", "parameter")

BranchEdges == InputEdges("define-branch", "branch")

InputAcyclic ==
    ~Cyclic(GateEdges) /\ ~Cyclic(ParameterEdges) /\ ~Cyclic(BranchEdges)

\* The position of a document among the supplied files.
FilePos(doc) == CHOOSE k \in 1..Len(xml_files) : xml_files[k] = doc

\* Something of the model is defined: the second pass has acted on it.
SomethingDefined(m) ==
    \/ \E k \in 1..Len(m.reg["gate"]) : m.reg["gate"][k].formula # <<>>
    \/ \E k \in 1..Len(m.reg["basic-event"]) :
          m.reg["basic-event"][k].expression # <<>>
    \/ \E k \in 1..Len(m.reg["parameter"]) :
          m.reg["parameter"][k].expression # <<>>
    \/ \E k \in 1..Len(m.reg["ccf-group"]) :
          \/ m.reg["ccf-group"][k].distribution # <<>>
          \/ m.reg["ccf-group"][k].factors # <<>>
    \/ \E k \in 1..Len(m.reg["sequence"]) :
          m.reg["sequence"][k].instructions # <<>>
    \/ \E k \in 1..Len(m.reg["event-tree"]) :
          \/ m.reg["event-tree"][k].initial_state # <<>>
          \/ m.reg["event-tree"][k].forks # <<>>
          \/ \E b \in 1..Len(m.reg["event-tree"][k].branches) :
                m.reg["event-tree"][k].branches[b].target # <<>>
    \/ m.expressions # <<>>

\* The entities a formula of the model refers to, by kind and name, in
\* the order of its arguments and through its nested formulas.
RECURSIVE ArgNames(_, _)
ArgNames(m, formula) ==
    Concat([k \in 1..Len(formula.args) |->
        IF IsFormula(formula.args[k]) THEN ArgNames(m, formula.args[k])
        ELSE IF formula.args[k].kind = "constant" THEN <<>>
        ELSE << <<formula.args[k].kind,
                  Deref(m, formula.args[k]).name>> >>])

\* The references of a formula element, by tag and name, in document order.
RECURSIVE RefNames(_)
RefNames(el) ==
    IF HasAttribute(el, "name") THEN << <<el.tag, NameIn(el)>> >>
    ELSE Concat([k \in 1..Len(el.kids) |-> RefNames(el.kids[k])])

\* The gates whose definition the second pass has completed, with the
\* element of each.
DefinedGates ==
    {it \in {tbd_[k] : k \in 1..tbd_i} :
        it.ref.kind = "gate" /\ Deref(model_, it.ref).formula # <<>>}

-----------------------------------------------------------------------------
(* Two phases.                                                             *)

\* C1: no deferred definition runs until every input file is completely
\* registered: while a file is still to be registered nothing of the model
\* is defined and no pending item is processed.  Therefore a reference to
\* an entity that a supplied file declares, earlier or later, in the same
\* file or in another, never fails as undefined, and the formula of a
\* defined gate refers to the entities its element names.
C1_DefineAfterRegistration ==
    /\ (SomethingDefined(model_) \/ tbd_i > 0) =>
          file_i = Len(xml_files) /\ Len(parsers_) = Len(xml_files)
    /\ err.msg = "Undefined" =>
          ~Declared("define-" \o err.names[1], err.names[2])
    /\ \A it \in DefinedGates :
          ArgNames(model_, Deref(model_, it.ref).formula[1])
              = RefNames(GetNonAttributeElements(it.node)[1])

\* A gate of the first file is defined with a reference to an entity that
\* the second file declares, and the construction is complete.
C1_Witness ==
    /\ pc = "done"
    /\ \E it \in DefinedGates :
          \E k \in 1..Len(Deref(model_, it.ref).formula[1].args) :
              /\ ~IsFormula(Deref(model_, it.ref).formula[1].args[k])
              /\ FilePos(Deref(model_,
                     Deref(model_, it.ref).formula[1].args[k]).doc)
                    > FilePos(it.node.doc)

-----------------------------------------------------------------------------
(* Cycles.                                                                 *)

\* C2: the construction never succeeds for a model with a cycle in the
\* graph of the gates (through formulas of any depth), of the parameters or
\* of the named branches (directly or through the paths of forks): the
\* validation is passed only by an input without a cycle, and an input
\* with a cycle whose references all resolve fails with a CycleError.
C2_NoSuccessWithCycle ==
    /\ pc \in {"SetupForAnalysis", "done"} => InputAcyclic
    /\ (pc = "error" /\ ~InputAcyclic /\ InputResolves) =>
          err.kind = "CycleError"

\* The construction has failed on a cycle of named branches in a model
\* whose gates have none.
C2_Witness ==
    /\ pc = "error"
    /\ err.kind = "CycleError"
    /\ Cyclic(BranchEdges)
    /\ ~Cyclic(GateEdges)

\* C3 as stated: the construction succeeds if and only if the three graphs
\* of the input are acyclic.
C3_SucceedsIffAcyclic ==
    /\ pc = "done" => InputAcyclic
    /\ pc = "error" => ~InputAcyclic

\* C3, amended: the construction succeeds only if the three graphs are
\* acyclic, and a CycleError is raised only if one of them has a cycle; an
\* input without a cycle fails if and only if it has another defect (in
\* these models: a reference to an undeclared name).
C3_CycleSoundness ==
    /\ pc = "done" => InputAcyclic /\ InputResolves
    /\ err.kind = "CycleError" => ~InputAcyclic
    /\ pc = "error" => ~InputAcyclic \/ ~InputResolves

\* The construction of a model with references between gates and without
\* a cycle is complete.
C3_Witness ==
    /\ pc = "done"
    /\ GateEdges # {}
    /\ InputAcyclic

-----------------------------------------------------------------------------
(* Names, scopes and roles.                                                *)

IsPrefix(a, b) == Len(a) <= Len(b) /\ SubSeq(b, 1, Len(a)) = a

\* Neither path is an ancestor of the other.
Sibling(a, b) == ~IsPrefix(a, b) /\ ~IsPrefix(b, a)

RoleKinds == {"gate", "basic-event", "house-event", "parameter", "ccf-group"}

KindOfTag(tag) ==
    CASE tag = "define-gate" -> "gate"
      [] tag = "define-basic-event" -> "basic-event"
      [] tag = "define-house-event" -> "house-event"
      [] tag = "define-parameter" -> "parameter"
      [] tag = "define-CCF-group" -> "ccf-group"
      [] OTHER -> "none"

\* The role an element states, or the role it inherits.
OwnOr(el, role) == IF HasAttribute(el, "role") THEN el.attrs["role"] ELSE role

Declaration(el, kind, path, role) ==
    [doc |-> el.doc, line |-> el.line, kind |-> kind, name |-> NameIn(el),
     path |-> path, role |-> role]

\* The declarations of the role-bearing entities under a container of the
\* input, each with the path of its containers and the role it states or
\* inherits from the nearest container: a fault tree, the model data and
\* the top of a document are public, the members of a CCF group are basic
\* events in the place and with the role of the group.
RECURSIVE DeclarationsIn(_, _, _)
DeclarationsIn(el, path, role) ==
    UNION {
        CASE kid.tag = "define-fault-tree" ->
                DeclarationsIn(kid, <<NameIn(kid)>>, "public")
          [] kid.tag = "model-data" -> DeclarationsIn(kid, <<>>, "public")
          [] kid.tag = "define-component" ->
                DeclarationsIn(kid, Append(path, NameIn(kid)),
                               OwnOr(kid, role))
          [] kid.tag = "define-CCF-group" ->
                {Declaration(kid, "ccf-group", path, OwnOr(kid, role))}
                \cup {Declaration(m, "basic-event", path, OwnOr(kid, role)) :
                         m \in Range(Find(kid, "members")[1].kids)}
          [] KindOfTag(kid.tag) \in RoleKinds \ {"ccf-group"} ->
                {Declaration(kid, KindOfTag(kid.tag), path,
                             OwnOr(kid, role))}
          [] OTHER -> {}
        : kid \in Range(el.kids)}

InputDeclarations ==
    UNION {DeclarationsIn(disk[xml_files[k]].root, <<>>, "public") :
              k \in 1..Len(xml_files)}

DeclarationAt(doc, line) ==
    CHOOSE d \in InputDeclarations : d.doc = doc /\ d.line = line

DeclaredScope(d) ==
    IF d.role = "private" THEN <<"private">> \o d.path ELSE <<"public">>

\* The registered entities of the role-bearing kinds, by kind and position.
Registered == {r \in RoleKinds \X (1..8) : r[2] <= Len(model_.reg[r[1]])}

EntityOf(r) == model_.reg[r[1]][r[2]]

\* The gates the second pass has tried to define, with the element of each.
ProcessedGates == {it \in {tbd_[k] : k \in 1..tbd_i} : it.ref.kind = "gate"}

\* The entity the only argument of a defined gate refers to.
ArgOf(it) == Deref(model_, it.ref).formula[1].args[1]

\* C4: names are unique per kind and scope.  A registration of a name that
\* is present under the same scope fails with a ValidationError that has
\* the line and the file of the later declaration; the entity declared
\* first is registered, the rejected one is not and has no pending item,
\* and the loading is over.  No step of the registration changes or drops
\* an entity registered before it.
C4_State ==
    /\ \A kind \in Kinds : \A i, j \in 1..Len(model_.reg[kind]) :
          i # j => \/ model_.reg[kind][i].name # model_.reg[kind][j].name
                   \/ Scope(model_.reg[kind][i]) # Scope(model_.reg[kind][j])
    /\ err.msg = "DuplicateEntity" =>
          /\ err.kind = "ValidationError"
          /\ pc = "error"
          /\ Len(err.lines) = 1 /\ Len(err.files) = 1
          /\ \E d \in InputDeclarations :
                /\ d.doc = err.files[1] /\ d.line = err.lines[1]
                /\ d.kind = err.names[1] /\ d.name = err.names[2]
                /\ \A r \in Registered :
                      ~(EntityOf(r).doc = d.doc /\ EntityOf(r).line = d.line)
                /\ \A k \in 1..Len(tbd_) :
                      ~(tbd_[k].node.doc = d.doc /\ tbd_[k].node.line = d.line)
                /\ \E r \in Registered :
                      /\ r[1] = d.kind
                      /\ EntityOf(r).name = d.name
                      /\ Scope(EntityOf(r)) = DeclaredScope(d)
                      /\ FilePos(EntityOf(r).doc) <= FilePos(d.doc)

RegistryKept ==
    \A kind \in Kinds :
        /\ Len(model_.reg[kind]) <= Len(model_'.reg[kind])
        /\ SubSeq(model_'.reg[kind], 1, Len(model_.reg[kind]))
              = model_.reg[kind]

C4_UniqueNames ==
    [](C4_State) /\ [][pc = "ProcessInputFile" => RegistryKept]_vars

\* The gate top of the second file is rejected as declared before.
C4_Witness ==
    /\ pc = "error"
    /\ err.msg = "DuplicateEntity"
    /\ err.names = <<"gate", "top">>
    /\ FilePos(err.files[1]) = 2
    /\ Len(model_.reg["gate"]) > 0

\* The condition of C5 on an entity e and a path: e is private under the
\* path, or e is public under the path or an ancestor of it.
RoundTrip(e, path) ==
    \/ e.role = "private" /\ e.base_path = path
    \/ e.role = "public" /\ IsPrefix(e.base_path, path)

\* A private entity of the kind and name is registered under the path or
\* an ancestor of it.
Shadowed(kind, name, path) ==
    \E k \in 1..Len(model_.reg[kind]) :
        /\ model_.reg[kind][k].name = name
        /\ model_.reg[kind][k].role = "private"
        /\ IsPrefix(model_.reg[kind][k].base_path, path)

\* The base paths of the registered entities: the paths of lookups.
BasePaths == {EntityOf(r).base_path : r \in Registered}

\* C5 as stated: a lookup of the name of a registered entity e from its
\* base path returns e, and from any descendant path too when e is public,
\* whatever else is registered: in the lookups of the model and in the
\* arguments of the gates defined with such a base path.
C5_RoundTrip ==
    /\ \A r \in Registered : \A path \in BasePaths :
          RoundTrip(EntityOf(r), path) =>
              Lookup(model_, r[1], EntityOf(r).name, path) = r[2]
    /\ \A it \in ProcessedGates :
          \A k \in 1..Len(model_.reg["basic-event"]) :
              (/\ model_.reg["basic-event"][k].name
                     = NameIn(GetNonAttributeElements(it.node)[1])
               /\ RoundTrip(model_.reg["basic-event"][k],
                            Deref(model_, it.ref).base_path))
              => /\ Deref(model_, it.ref).formula # <<>>
                 /\ ArgOf(it) = Ref("basic-event", k)

\* C5, amended: the same, unless e is public and a private entity of the
\* same kind and name is registered under the path of the lookup or an
\* ancestor of it: the private entity is found first.
C5_RoundTripUnlessShadowed ==
    /\ \A r \in Registered : \A path \in BasePaths :
          (/\ RoundTrip(EntityOf(r), path)
           /\ EntityOf(r).role = "public" =>
                 ~Shadowed(r[1], EntityOf(r).name, path))
          => Lookup(model_, r[1], EntityOf(r).name, path) = r[2]
    /\ \A it \in ProcessedGates :
          \A k \in 1..Len(model_.reg["basic-event"]) :
              (/\ model_.reg["basic-event"][k].name
                     = NameIn(GetNonAttributeElements(it.node)[1])
               /\ RoundTrip(model_.reg["basic-event"][k],
                            Deref(model_, it.ref).base_path)
               /\ model_.reg["basic-event"][k].role = "public" =>
                     ~Shadowed("basic-event",
                               model_.reg["basic-event"][k].name,
                               Deref(model_, it.ref).base_path))
              => /\ Deref(model_, it.ref).formula # <<>>
                 /\ ArgOf(it) = Ref("basic-event", k)

\* The gate of the component D refers to the public x of the fault tree,
\* two levels above it, with a private x registered in a sibling, and the
\* gate of P to the private x of P.
C5_Witness ==
    /\ pc = "done"
    /\ \E it \in ProcessedGates :
          /\ Deref(model_, it.ref).base_path = <<"FT", "P", "D">>
          /\ ArgOf(it).kind = "basic-event"
          /\ Deref(model_, ArgOf(it)).base_path = <<"FT">>
          /\ Deref(model_, ArgOf(it)).role = "public"
    /\ Shadowed("basic-event", "x", <<"FT", "Q">>)

\* C6: a private entity declared under a path is never what a reference
\* from a sibling path resolves to: no argument of a defined gate is a
\* private entity declared under a sibling of the path of the gate.
C6_ScopeIsolation ==
    \A it \in ProcessedGates :
        Deref(model_, it.ref).formula # <<>> =>
            \A k \in 1..Len(Deref(model_, it.ref).formula[1].args) :
                DeclarationAt(Deref(model_,
                        Deref(model_, it.ref).formula[1].args[k]).doc,
                    Deref(model_,
                        Deref(model_, it.ref).formula[1].args[k]).line).role
                    = "private"
                => ~Sibling(
                      DeclarationAt(Deref(model_,
                          Deref(model_, it.ref).formula[1].args[k]).doc,
                        Deref(model_,
                          Deref(model_, it.ref).formula[1].args[k]).line).path,
                      DeclarationAt(it.node.doc, it.node.line).path)

\* A private x is declared in P, and the gate of the sibling Q, which
\* declares none, refers to the x of the model data.
C6_Witness ==
    /\ pc = "done"
    /\ \E d \in InputDeclarations :
          d.name = "x" /\ d.role = "private" /\ d.path = <<"FT", "P">>
    /\ \E it \in ProcessedGates :
          /\ DeclarationAt(it.node.doc, it.node.line).path = <<"FT", "Q">>
          /\ DeclarationAt(Deref(model_, ArgOf(it)).doc,
                           Deref(model_, ArgOf(it)).line).path = <<>>

\* C7: a registered role-bearing entity has the role its element states,
\* and otherwise the role of the container that encloses it; what the
\* model data and the top of a document declare without a role is public;
\* what a component declares is registered under the path of the component
\* (the path of its parent and its name) with the role of the component as
\* the inherited role.  Every declaration of a registered file is
\* registered so.
C7_Roles ==
    /\ \A r \in Registered :
          \E d \in InputDeclarations :
              /\ d.doc = EntityOf(r).doc /\ d.line = EntityOf(r).line
              /\ d.kind = r[1] /\ d.name = EntityOf(r).name
              /\ EntityOf(r).role = d.role
              /\ EntityOf(r).base_path = d.path
    /\ pc \in {"ProcessTbdElements", "ValidateInitialization",
               "SetupForAnalysis", "done"} =>
          \A d \in InputDeclarations :
              \E r \in Registered :
                  EntityOf(r).doc = d.doc /\ EntityOf(r).line = d.line

\* The gate of D, which states no role, is private under FT.P.D by the
\* role that P states, and the x of P is public by its own attribute.
C7_Witness ==
    /\ pc = "done"
    /\ \E k \in 1..Len(model_.reg["gate"]) :
          /\ model_.reg["gate"][k].name = "gd"
          /\ model_.reg["gate"][k].role = "private"
          /\ model_.reg["gate"][k].base_path = <<"FT", "P", "D">>
    /\ \E k \in 1..Len(model_.reg["basic-event"]) :
          /\ model_.reg["basic-event"][k].base_path = <<"FT", "P">>
          /\ model_.reg["basic-event"][k].name = "x"
          /\ model_.reg["basic-event"][k].role = "public"

-----------------------------------------------------------------------------
(* The checks of the input files.                                          *)

AllExist == \A k \in 1..Len(xml_files) : Exists(xml_files[k])

NoDuplicates ==
    \A i, j \in 1..Len(xml_files) :
        i # j => Canonical(xml_files[i]) # Canonical(xml_files[j])

\* Nothing is validated, parsed or registered.
Untouched ==
    /\ file_i = 0 /\ tbd_i = 0
    /\ model_ = EmptyModel
    /\ tbd_ = <<>> /\ expressions_ = <<>> /\ parsers_ = <<>>
    /\ doc_to_file_ = {}

\* C8: a file is validated, parsed or registered only if every supplied
\* path exists and no two have the same canonical path.  With a missing
\* path the construction fails with an IOError, repeated paths or not, and
\* with existing paths of which two have the same canonical path it fails
\* with a DuplicateArgumentError; both with no state of the model created.
C8_Preflight ==
    /\ ~Untouched => AllExist /\ NoDuplicates
    /\ pc \notin {"CheckFileExistence", "CheckDuplicateFiles", "error"} =>
          AllExist /\ NoDuplicates
    /\ pc = "CheckDuplicateFiles" => AllExist
    /\ (pc = "error" /\ ~AllExist) =>
          /\ err.kind = "IOError"
          /\ err.names = <<xml_files[FirstMissing(xml_files)]>>
          /\ Untouched
    /\ (pc = "error" /\ AllExist /\ ~NoDuplicates) =>
          /\ err.kind = "DuplicateArgumentError"
          /\ err.msg = "Duplicate input files"
          /\ Untouched
    /\ (pc = "error" /\ AllExist /\ NoDuplicates) =>
          err.kind \notin {"IOError", "DuplicateArgumentError"}

\* Two paths of one file come before a missing path: the IOError is raised.
C8_Witness ==
    /\ pc = "error"
    /\ err.kind = "IOError"
    /\ FirstMissing(xml_files) > 2
    /\ Canonical(xml_files[1]) = Canonical(xml_files[2])

\* The canonical paths that more than one of the supplied paths has.
Duplicated ==
    {Canonical(xml_files[i]) : i \in
        {i \in 1..Len(xml_files) :
            \E j \in 1..Len(xml_files) :
                j # i /\ Canonical(xml_files[j]) = Canonical(xml_files[i])}}

\* How many times a path is in a list.
Count(files, path) == Cardinality({k \in 1..Len(files) : files[k] = path})

\* C9 as stated: the DuplicateArgumentError lists every supplied path whose
\* canonical path another supplied path has, and the canonical path.
C9_ListsAllDuplicates ==
    err.msg = "Duplicate input files" =>
        /\ err.posix \in Duplicated
        /\ \A k \in 1..Len(xml_files) :
              Canonical(xml_files[k]) \in Duplicated =>
                  xml_files[k] \in Range(err.names)

\* C9, amended: the DuplicateArgumentError names the first, in the order
\* of paths, of the canonical paths that more than one supplied path has,
\* and lists the supplied paths with this canonical path, each as many
\* times as it is supplied, and no other path.
C9_ListsFirstDuplicates ==
    err.msg = "Duplicate input files" =>
        /\ err.kind = "DuplicateArgumentError"
        /\ err.posix \in Duplicated
        /\ \A c \in Duplicated : err.posix <= c
        /\ \A path \in Paths :
              Count(err.names, path) =
                  IF Canonical(path) = err.posix
                  THEN Count(xml_files, path) ELSE 0

\* Three paths of one file and another file: the three are listed.
C9_Witness ==
    /\ pc = "error"
    /\ err.msg = "Duplicate input files"
    /\ Len(err.names) = 3
    /\ Len(xml_files) = 4
    /\ Cardinality(Range(err.names)) = 2

-----------------------------------------------------------------------------
(* The arguments of expressions.                                           *)

\* The numbers of arguments an expression of a tag is declared to take:
\* any number for the expressions with a list of arguments.
Arities(tag) ==
    CASE tag = "lognormal-deviate" -> {2, 3}
      [] tag = "periodic-test" -> {4, 5, 11}
      [] NumArgs(tag) = -1 -> 0..(MaxArgs + 1)
      [] OTHER -> {NumArgs(tag)}

\* C10: the element of every expression constructed has a number of
\* children that its operator is declared to take, and once the definition
\* of an element with another number of children is processed, the
\* construction has failed with a ValidationError that has a line.
C10_ArityEnforced ==
    /\ \A k \in 1..Len(expressions_) :
          Len(FindAll(expressions_[k].node))
              \in Arities(expressions_[k].node.tag)
    /\ (/\ tbd_i > 0
        /\ \E el \in InputElements :
              /\ el.tag \in ExtractorTags
              /\ Len(FindAll(el)) \notin Arities(el.tag))
       => /\ pc = "error"
          /\ err.kind = "ValidationError"
          /\ err.lines # <<>>

-----------------------------------------------------------------------------
(* Models with units: a parameter p with or without a unit, and a          *)
(* parameter q whose expression refers to p or to the mission time, with   *)
(* or without a unit, at the top of the expression or under an operator,   *)
(* declared before p or after it.                                          *)

Units == {"", "unitless", "hours", "years"}

WithUnit(attrs, unit) ==
    IF unit = "" THEN attrs ELSE attrs @@ [unit |-> unit]

UnitReference(doc, tag, unit, line) ==
    El(doc, tag,
       WithUnit(IF tag = "parameter" THEN [name |-> "p"] ELSE NoAttrs, unit),
       line, <<>>)

UnitsDocument(doc, v) ==
    LET at == IF v.first THEN 100 ELSE 120
        p == El(doc, "define-parameter", WithUnit([name |-> "p"], v.unit),
                at, << Float(doc, at + 1) >>)
        ref == UnitReference(doc, v.tag, v.given, 112)
        q == Named(doc, "define-parameter", "q", 110,
                   << IF v.nested THEN Plain(doc, "neg", 111, << ref >>)
                      ELSE ref >>)
    IN  Document(doc,
            << Plain(doc, "model-data", 90,
                     IF v.first THEN << p, q >> ELSE << q, p >>) >>)

UnitsDisk(v) == [path \in Paths |-> UnitsDocument(path, v)]

UnitsVariants ==
    [unit : Units, given : Units, tag : {"parameter", "system-mission-time"},
     nested : BOOLEAN, first : BOOLEAN]

InitUnits ==
    \E v \in UnitsVariants :
        InitWith(<<"a.xml">>, UnitsDisk(v), [probability_analysis |-> FALSE])

SpecUnits == InitUnits /\ [][Next]_vars

-----------------------------------------------------------------------------
(* Units of references.                                                    *)

References ==
    {el \in InputElements : el.tag \in {"parameter", "system-mission-time"}}

\* The unit of what a reference refers to, as the input declares it: the
\* unit of the definition of the parameter, unitless when it states none,
\* and hours for the mission time.
DefinitionUnit(ref) ==
    IF ref.tag = "system-mission-time" THEN "hours"
    ELSE LET def == CHOOSE el \in InputElements :
                        el.tag = "define-parameter" /\ NameIn(el) = NameIn(ref)
         IN  IF GetAttributeValue(def, "unit") = "" THEN "unitless"
             ELSE GetAttributeValue(def, "unit")

UnitMismatch(ref) ==
    /\ GetAttributeValue(ref, "unit") # ""
    /\ GetAttributeValue(ref, "unit") # DefinitionUnit(ref)

\* C11: a reference to a parameter or to the mission time that states a
\* unit other than the unit of the definition fails, once processed, with
\* a ValidationError that has the line of the reference and names the
\* expected and the given unit; a reference that states no unit does not
\* fail so; after a load that succeeded every reference that states a unit
\* states the unit of its definition.
C11_Units ==
    /\ err.msg = "UnitMismatch" =>
          /\ err.kind = "ValidationError"
          /\ pc = "error"
          /\ \E ref \in References :
                /\ UnitMismatch(ref)
                /\ err.lines = <<ref.line>>
                /\ err.names = <<DefinitionUnit(ref),
                                 GetAttributeValue(ref, "unit")>>
    /\ (\E ref \in References : UnitMismatch(ref)) =>
          /\ pc \notin {"ValidateInitialization", "SetupForAnalysis", "done"}
          /\ pc = "error" => err.msg = "UnitMismatch"
    /\ (\A ref \in References : GetAttributeValue(ref, "unit") = "") =>
          err.msg # "UnitMismatch"
    /\ pc = "done" => \A ref \in References : ~UnitMismatch(ref)

\* A reference in years, before the definition of its parameter in hours,
\* is rejected.
C11_Witness ==
    /\ pc = "error"
    /\ err.msg = "UnitMismatch"
    /\ err.names = <<"hours", "years">>
    /\ \E ref \in References :
          /\ ref.tag = "parameter"
          /\ \E def \in InputElements :
                def.tag = "define-parameter" /\ NameIn(def) = "p"
                /\ def.line > ref.line

-----------------------------------------------------------------------------
(* Models with formulas: the gate g of a fault tree has a formula of any   *)
(* operator over none to MaxFormulaArgs basic events, at the top or as an  *)
(* argument of another formula, beside a gate that is or is not its own    *)
(* argument.                                                               *)

MaxFormulaArgs == 3

Operators == OperatorTags \ {"null"}

FormulaOf(doc, v, line) ==
    El(doc, v.op, IF v.op = "atleast" THEN [min |-> v.min] ELSE NoAttrs, line,
       [k \in 1..v.n |-> Named(doc, "basic-event", NameOf("e", k),
                               line + k, <<>>)])

FormulaDocument(doc, v) ==
    Document(doc,
        << Named(doc, "define-fault-tree", "FT", 10,
               << Named(doc, "define-gate", "g", 11,
                      << IF v.nested
                         THEN Plain(doc, "or", 12,
                                  << Named(doc, "basic-event", "e1", 13,
                                           <<>>),
                                     FormulaOf(doc, v, 14) >>)
                         ELSE FormulaOf(doc, v, 14) >>),
                  Named(doc, "define-gate", "c", 30,
                      << Named(doc,
                               IF v.cycle THEN "gate" ELSE "basic-event",
                               IF v.cycle THEN "c" ELSE "e1", 31, <<>>) >>)
               >>),
           Plain(doc, "model-data", 90,
               [k \in 1..MaxFormulaArgs |->
                   Named(doc, "define-basic-event", NameOf("e", k), 90 + k,
                         <<>>)]) >>)

FormulaDisk(v) == [path \in Paths |-> FormulaDocument(path, v)]

FormulaVariants ==
    {v \in [op : Operators, n : 0..MaxFormulaArgs, min : 0..MaxFormulaArgs,
            nested : BOOLEAN, cycle : BOOLEAN] :
        v.op # "atleast" => v.min = 0}

InitFormula ==
    \E v \in FormulaVariants :
        InitWith(<<"a.xml">>, FormulaDisk(v),
                 [probability_analysis |-> FALSE])

SpecFormula == InitFormula /\ [][Next]_vars

-----------------------------------------------------------------------------
(* The arguments of formulas.                                              *)

\* The number of arguments of an operator and the bounds of the vote
\* number, for the operator, the vote number and the number n of arguments.
WellFormed(op, min, n) ==
    CASE op \in {"and", "or", "nand", "nor"} -> n >= 2
      [] op \in {"not", "null"} -> n = 1
      [] op = "xor" -> n = 2
      [] op = "atleast" -> 1 <= min /\ min < n
      [] OTHER -> FALSE

FormulaElements == {el \in InputElements : el.tag \in Operators}

WellFormedElement(el) ==
    WellFormed(el.tag, IF el.tag = "atleast" THEN el.attrs["min"] ELSE 0,
               Len(FindAll(el)))

\* A formula and the formulas among its arguments, at any depth.
RECURSIVE FormulasIn(_)
FormulasIn(formula) ==
    {formula}
    \cup UNION {FormulasIn(formula.args[k]) :
                   k \in {k \in 1..Len(formula.args) :
                             IsFormula(formula.args[k])}}

ModelFormulas ==
    UNION {FormulasIn(model_.reg["gate"][g].formula[1]) :
              g \in {g \in 1..Len(model_.reg["gate"]) :
                        model_.reg["gate"][g].formula # <<>>}}

\* C12: after a load that succeeded every formula of the model, at any
\* depth, has a number of arguments that its operator takes and, when it
\* is a vote, a vote number from 1 to below the number of its arguments.
\* An input with a formula that is not so is rejected in the deferred
\* definition, before the validation with its cycle detection starts, with
\* a ValidationError whose innermost line is the line of such a formula.
C12_Formulas ==
    /\ pc = "done" =>
          /\ \A f \in ModelFormulas :
                WellFormed(f.type, f.vote_number, Len(f.args))
          /\ \A el \in FormulaElements : WellFormedElement(el)
    /\ (\E el \in FormulaElements : ~WellFormedElement(el)) =>
          /\ pc \notin {"ValidateInitialization", "SetupForAnalysis", "done"}
          /\ pc = "error" =>
                /\ err.kind = "ValidationError"
                /\ err.msg = "InvalidFormula"
                /\ tbd_i <= Len(tbd_)
    /\ err.msg = "InvalidFormula" =>
          /\ err.kind = "ValidationError"
          /\ err.lines # <<>>
          /\ \E el \in FormulaElements :
                /\ ~WellFormedElement(el)
                /\ err.lines[Len(err.lines)] = el.line

\* A vote of three out of three events, an argument of another formula, is
\* rejected with its line, in a model that has a gate cycle too.
C12_Witness ==
    /\ pc = "error"
    /\ err.msg = "InvalidFormula"
    /\ err.lines = <<14>>
    /\ \E el \in FormulaElements : el.tag = "or" /\ el.line = 12
    /\ \E el \in FormulaElements :
          el.tag = "atleast" /\ el.attrs["min"] = 3 /\ Len(FindAll(el)) = 3
    /\ \E el \in InputElements : el.tag = "gate" /\ NameIn(el) = "c"

-----------------------------------------------------------------------------
(* Models with basic events with and without an expression, declared in a  *)
(* fault tree and in the model data, with or without a CCF group, loaded   *)
(* with and without the analysis of probabilities.                         *)

BasicEventOf(doc, name, line, expression) ==
    Named(doc, "define-basic-event", name, line,
          IF expression THEN << Float(doc, line + 1) >> ELSE <<>>)

ProbabilityDocument(doc, v) ==
    Document(doc,
        << Named(doc, "define-fault-tree", "FT", 10,
               << BasicEventOf(doc, "b1", 11, v.b1),
                  Named(doc, "define-gate", "g", 13,
                        << Named(doc, "basic-event", "b1", 14, <<>>) >>) >>)
        >> \o Opt(v.ccf,
               Named(doc, "define-CCF-group", "ccf", 20,
                   << Plain(doc, "members", 21,
                          << Named(doc, "basic-event", "m1", 22, <<>>),
                             Named(doc, "basic-event", "m2", 23, <<>>) >>),
                      Plain(doc, "distribution", 24,
                            << Float(doc, 25) >>) >>))
        \o << Plain(doc, "model-data", 90,
               << BasicEventOf(doc, "b2", 91, v.b2),
                  BasicEventOf(doc, "b3", 93, v.b3) >>) >>)

ProbabilityDisk(v) == [path \in Paths |-> ProbabilityDocument(path, v)]

InitProbability ==
    \E v \in [b1 : BOOLEAN, b2 : BOOLEAN, b3 : BOOLEAN, ccf : BOOLEAN],
       probability_analysis \in BOOLEAN :
        InitWith(<<"a.xml">>, ProbabilityDisk(v),
                 [probability_analysis |-> probability_analysis])

SpecProbability == InitProbability /\ [][Next]_vars

-----------------------------------------------------------------------------
(* Basic events without an expression.                                     *)

\* The positions of the registered basic events that have no expression.
Lacking ==
    {k \in 1..Len(model_.reg["basic-event"]) :
        model_.reg["basic-event"][k].expression = <<>>}

\* The names of the basic events that the input defines with no expression.
DeclaredLacking ==
    {NameIn(el) : el \in {el \in InputElements :
                             /\ el.tag = "define-basic-event"
                             /\ GetNonAttributeElements(el) = <<>>}}

\* C13: with the analysis of probabilities requested the construction gets
\* past the validation only if every basic event of the model, the members
\* of CCF groups too, has an expression; otherwise it fails with one
\* ValidationError that names each basic event without an expression once.
\* Without the analysis requested there is no such failure.
C13_Expressions ==
    /\ (settings_.probability_analysis /\ pc \in {"SetupForAnalysis", "done"})
          => Lacking = {} /\ DeclaredLacking = {}
    /\ (/\ settings_.probability_analysis
        /\ pc = "error"
        /\ tbd_i = Len(tbd_)
        /\ Lacking # {})
          => err.msg = "NoExpression"
    /\ err.msg = "NoExpression" =>
          /\ settings_.probability_analysis
          /\ err.kind = "ValidationError"
          /\ pc = "error"
          /\ Len(err.names) = Cardinality(Lacking)
          /\ Range(err.names) = {model_.reg["basic-event"][k].name :
                                    k \in Lacking}
          /\ DeclaredLacking \subseteq Range(err.names)
    /\ ~settings_.probability_analysis =>
          /\ err.msg # "NoExpression"
          /\ pc # "error"

\* Two basic events of different containers and a member of a CCF group
\* are named by one error.
C13_Witness ==
    /\ pc = "error"
    /\ err.msg = "NoExpression"
    /\ {"b1", "b3"} \subseteq Range(err.names)
    /\ "b2" \notin Range(err.names)
    /\ \E k \in Lacking :
          \E g \in 1..Len(model_.reg["ccf-group"]) :
              \E m \in 1..Len(model_.reg["ccf-group"][g].members) :
                  model_.reg["ccf-group"][g].members[m].name
                      = model_.reg["basic-event"][k].name

-----------------------------------------------------------------------------
(* Models with entities of every kind: a fault tree with a basic event and *)
(* a gate and, each present or not, a house event, a parameter, a CCF      *)
(* group and a component; an event tree or none; a basic event in the      *)
(* model data.                                                             *)

KindsFaultTree(doc, v) ==
    Named(doc, "define-fault-tree", "FT", 10,
        Opt(v.house, Named(doc, "define-house-event", "h", 11, <<>>))
        \o << BasicEventOf(doc, "b", 12, TRUE) >>
        \o Opt(v.param,
               Named(doc, "define-parameter", "p", 14, << Float(doc, 15) >>))
        \o << Named(doc, "define-gate", "g", 16,
                    << Named(doc, "basic-event", "b", 17, <<>>) >>) >>
        \o Opt(v.ccf, CcfGroupOf(doc, "ccf", "", "m", 20))
        \o Opt(v.comp,
               Named(doc, "define-component", "C", 30,
                   << Named(doc, "define-gate", "gc", 31,
                            << Named(doc, "basic-event", "b", 32, <<>>) >>),
                      Named(doc, "define-house-event", "hc", 33, <<>>) >>)))

KindsDocument(doc, v) ==
    Document(doc,
        Opt(v.tree, EventTreeOf(doc, AllLeaf))
        \o << KindsFaultTree(doc, v),
              Plain(doc, "model-data", 90,
                    << BasicEventOf(doc, "e", 91, FALSE) >>) >>)

KindsDisk(v) == [path \in Paths |-> KindsDocument(path, v)]

InitKinds ==
    \E v \in [house : BOOLEAN, param : BOOLEAN, ccf : BOOLEAN,
              comp : BOOLEAN, tree : BOOLEAN] :
        InitWith(<<"a.xml">>, KindsDisk(v), [probability_analysis |-> FALSE])

SpecKinds == InitKinds /\ [][Next]_vars

-----------------------------------------------------------------------------
(* The pending work list.                                                  *)

\* Every file is registered.
RegistrationOver ==
    file_i = Len(xml_files) /\ Len(parsers_) = Len(xml_files)

AllRegistered ==
    {r \in Kinds \X (1..8) : r[2] <= Len(model_.reg[r[1]])}

\* The positions of the pending items of an entity.
ItemsOf(r) == {k \in 1..Len(tbd_) : tbd_[k].ref = Ref(r[1], r[2])}

\* The element that declares a registered entity is of the tag.
DeclaredBy(r, tag) ==
    \E el \in InputElements :
        /\ el.doc = EntityOf(r).doc /\ el.line = EntityOf(r).line
        /\ el.tag = tag

\* C14 as stated: after the registration every entity of the registries of
\* the model has exactly one pending item.
C14_OneItemEach ==
    RegistrationOver =>
        \A r \in AllRegistered : Cardinality(ItemsOf(r)) = 1

\* The entities with a body to define later: gates, parameters, CCF
\* groups, sequences, event trees and the basic events that a
\* define-basic-event declares.
Deferred(r) ==
    \/ r[1] \in {"gate", "parameter", "ccf-group", "sequence", "event-tree"}
    \/ r[1] = "basic-event" /\ DeclaredBy(r, "define-basic-event")

\* C14, amended: after the registration every gate, parameter, CCF group,
\* sequence, event tree and declared basic event of the registries has
\* exactly one pending item, with the element that declares it; a house
\* event, a basic event that is a member of a CCF group and a fault tree
\* have none; every pending item is of a registered entity.
C14_OneItemPerDeferred ==
    RegistrationOver =>
        /\ \A r \in AllRegistered :
              /\ Cardinality(ItemsOf(r)) = IF Deferred(r) THEN 1 ELSE 0
              /\ \A k \in ItemsOf(r) :
                    /\ tbd_[k].node.doc = EntityOf(r).doc
                    /\ tbd_[k].node.line = EntityOf(r).line
        /\ \A k \in 1..Len(tbd_) :
              \E r \in AllRegistered : k \in ItemsOf(r)

\* Entities of all the kinds are registered: the work list has the items
\* of eight of them and none of the house events, the member and the fault
\* tree.
C14_Witness ==
    /\ pc = "done"
    /\ \A kind \in Kinds : model_.reg[kind] # <<>>
    /\ Len(model_.reg["house-event"]) = 2
    /\ Len(model_.reg["basic-event"]) = 3
    /\ Len(tbd_) = 8

-----------------------------------------------------------------------------
(* The expressions of the model and the list for their validation.         *)

\* The positions on expressions_ of an expression of the model.
RecordsOf(i) ==
    {k \in 1..Len(expressions_) : expressions_[k].expression = Ref("expr", i)}

\* C15 as stated: every expression that the model owns, a constant of an
\* int or float element as well as an expression of an operator, has an
\* entry on expressions_.
C15_AllRecorded ==
    \A i \in 1..Len(model_.expressions) : RecordsOf(i) # {}

\* C15, amended: every expression constructed for an element is owned by
\* the model and is the expression of an element of the input; those of the
\* extractors (the operators and the distributions) have exactly one entry
\* on expressions_, with their element, and the constants of the int and
\* float elements have none; every entry is of an expression of the model.
C15_ExtractedRecorded ==
    /\ \A i \in 1..Len(model_.expressions) :
          /\ \E el \in InputElements :
                /\ el.doc = model_.expressions[i].doc
                /\ el.line = model_.expressions[i].line
                /\ el.tag = model_.expressions[i].tag
          /\ Cardinality(RecordsOf(i)) =
                IF model_.expressions[i].tag \in ExtractorTags THEN 1 ELSE 0
          /\ \A k \in RecordsOf(i) :
                /\ expressions_[k].node.doc = model_.expressions[i].doc
                /\ expressions_[k].node.line = model_.expressions[i].line
    /\ \A k \in 1..Len(expressions_) :
          /\ expressions_[k].expression.kind = "expr"
          /\ expressions_[k].expression.i \in 1..Len(model_.expressions)

\* An operator under an operator over constants: two entries for the two
\* operators, none for the constants.
C15_Witness ==
    /\ pc = "done"
    /\ Len(expressions_) = 2
    /\ Len(model_.expressions) > 3
    /\ \E i \in 1..Len(model_.expressions) :
          model_.expressions[i].tag = "float" /\ RecordsOf(i) = {}

-----------------------------------------------------------------------------
(* Models with any of the defects that the checks after the load look for: *)
(* a gate that refers to itself, a named branch that refers to itself, a   *)
(* basic event without an expression, a parameter that refers to itself,   *)
(* an expression outside its domain, a CCF group and a basic event that    *)
(* fail their validation; loaded with and without the analysis of          *)
(* probabilities.                                                          *)

ValidAttr(name, invalid) ==
    [name |-> name, valid |-> IF invalid THEN "false" ELSE "true"]

ChecksDocument(doc, v) ==
    Document(doc,
        << EventTreeOf(doc, [i \in 1..MaxNodes |->
                                IF i = 1 /\ v.branch_cycle
                                THEN "self" ELSE "leaf"]),
           Named(doc, "define-fault-tree", "FT", 10,
               << El(doc, "define-basic-event",
                     ValidAttr("b", v.invalid_event), 11,
                     << Float(doc, 12) >>),
                  Named(doc, "define-gate", "g", 13,
                        << IF v.gate_cycle
                           THEN Named(doc, "gate", "g", 14, <<>>)
                           ELSE Named(doc, "basic-event", "b", 14, <<>>) >>)
               >> \o Opt(v.ccf # "none",
                      El(doc, "define-CCF-group",
                         ValidAttr("ccf", v.ccf = "invalid"), 20,
                         << Plain(doc, "members", 21,
                              << Named(doc, "basic-event", "m1", 22, <<>>),
                                 Named(doc, "basic-event", "m2", 23, <<>>) >>),
                            Plain(doc, "distribution", 24,
                                  << Float(doc, 25) >>) >>))),
           Plain(doc, "model-data", 90,
               << BasicEventOf(doc, "e", 91, ~v.missing),
                  Named(doc, "define-parameter", "p", 100,
                      << El(doc, "neg",
                            IF v.invalid_expression
                            THEN [domain |-> "invalid"] ELSE NoAttrs,
                            101,
                            << IF v.parameter_cycle
                               THEN Named(doc, "parameter", "p", 102, <<>>)
                               ELSE Float(doc, 102) >>) >>),
                  Named(doc, "define-parameter", "q", 110,
                      << Named(doc, "parameter", "p", 111, <<>>) >>) >>) >>)

ChecksDisk(v) == [path \in Paths |-> ChecksDocument(path, v)]

InitChecks ==
    \E v \in [gate_cycle : BOOLEAN, branch_cycle : BOOLEAN, missing : BOOLEAN,
              parameter_cycle : BOOLEAN, invalid_expression : BOOLEAN,
              ccf : {"none", "valid", "invalid"}, invalid_event : BOOLEAN],
       probability_analysis \in BOOLEAN :
        InitWith(<<"a.xml">>, ChecksDisk(v),
                 [probability_analysis |-> probability_analysis])

SpecChecks == InitChecks /\ [][Next]_vars

-----------------------------------------------------------------------------
(* The validation of the recorded expressions.                             *)

\* The positions on expressions_ of the expressions whose Validate() has
\* been invoked.
Validated == {k \in 1..Len(expressions_) : expressions_[k].validated}

AllMarked(table, mark) == \A k \in 1..Len(table) : table[k].mark = mark

\* C16: Validate() of a recorded expression is invoked only after the
\* detection of cycles has visited every parameter of the model and found
\* no cycle: by then all files are registered, all pending items are
\* defined, every parameter that the input declares is in the model and
\* marked as visited, and the parameters of the input have no cycle.  No
\* recorded expression is validated during the registration or during the
\* deferred definitions.
C16_ValidateAfterCycles ==
    /\ Validated # {} =>
          /\ pc \in {"SetupForAnalysis", "done", "error"}
          /\ file_i = Len(xml_files)
          /\ tbd_i = Len(tbd_)
          /\ ~Cyclic(ParameterEdges)
          /\ AllMarked(model_.reg["parameter"], "permanent")
          /\ \A el \in InputElements :
                el.tag = "define-parameter" =>
                    \E k \in 1..Len(model_.reg["parameter"]) :
                        model_.reg["parameter"][k].name = NameIn(el)
    /\ pc \in {"CheckFileExistence", "CheckDuplicateFiles",
               "ProcessInputFile", "ProcessTbdElements",
               "ValidateInitialization"} => Validated = {}

\* The expression of a parameter to which another parameter refers has
\* been validated, and found outside its domain, in a model whose
\* parameters are all visited.
C16_Witness ==
    /\ pc = "error"
    /\ err.msg = "domain"
    /\ Validated # {}
    /\ ParameterEdges # {}
    /\ Len(model_.reg["parameter"]) = 2
    /\ AllMarked(model_.reg["parameter"], "permanent")

-----------------------------------------------------------------------------
(* The order of the checks after the load.                                 *)

\* Check k finds a defect in the input.
Fails(k) ==
    CASE k = 1 -> Cyclic(GateEdges)
      [] k = 2 -> Cyclic(BranchEdges)
      [] k = 3 -> /\ settings_.probability_analysis
                  /\ \/ DeclaredLacking # {}
                     \/ \E el \in InputElements : el.tag = "members"
      [] k = 4 -> Cyclic(ParameterEdges)
      [] k = 5 -> \E el \in InputElements :
                      /\ el.tag \in ExtractorTags
                      /\ GetAttributeValue(el, "domain") = "invalid"
      [] k = 6 -> \E el \in InputElements :
                      /\ el.tag = "define-CCF-group"
                      /\ GetAttributeValue(el, "valid") = "false"
      [] k = 7 -> \E el \in InputElements :
                      /\ el.tag = "define-basic-event"
                      /\ GetAttributeValue(el, "valid") = "false"
                      /\ GetNonAttributeElements(el) # <<>>

\* The first check in the order that finds a defect, 0 if none does.
FirstFailing ==
    IF \E k \in 1..7 : Fails(k)
    THEN CHOOSE k \in 1..7 : Fails(k) /\ \A j \in 1..(k - 1) : ~Fails(j)
    ELSE 0

\* The error is the one check k raises.
RaisedBy(k) ==
    CASE k = 1 -> /\ err.kind = "CycleError"
                  /\ \E el \in InputElements :
                        el.tag = "define-gate" /\ NameIn(el) = err.names[1]
      [] k = 2 -> /\ err.kind = "CycleError"
                  /\ \E el \in InputElements :
                        el.tag = "define-branch" /\ NameIn(el) = err.names[1]
      [] k = 3 -> err.kind = "ValidationError" /\ err.msg = "NoExpression"
      [] k = 4 -> /\ err.kind = "CycleError"
                  /\ \E el \in InputElements :
                        /\ el.tag = "define-parameter"
                        /\ NameIn(el) = err.names[1]
      [] k = 5 -> /\ err.kind = "ValidationError" /\ err.msg = "domain"
                  /\ \E el \in InputElements :
                        /\ GetAttributeValue(el, "domain") = "invalid"
                        /\ err.lines = <<el.line>>
      [] k = 6 -> /\ err.kind = "ValidationError"
                  /\ err.msg = "InvalidCcfGroups"
      [] k = 7 -> /\ err.kind = "ValidationError"
                  /\ err.msg = "InvalidBasicEvents"
      [] OTHER -> FALSE

\* What the checks that visit the model leave behind: the marks of the
\* detection of cycles and the validated expressions.
GatesVisited == AllMarked(model_.reg["gate"], "permanent")

BranchesTouched ==
    \E t \in 1..Len(model_.reg["event-tree"]) :
        ~AllMarked(model_.reg["event-tree"][t].branches, "clear")

BranchesVisited ==
    \A t \in 1..Len(model_.reg["event-tree"]) :
        AllMarked(model_.reg["event-tree"][t].branches, "permanent")

ParametersTouched == ~AllMarked(model_.reg["parameter"], "clear")

ParametersVisited == AllMarked(model_.reg["parameter"], "permanent")

\* C17: the checks after the load run in the order gate cycles, branch
\* cycles, basic events without an expression (with the analysis of
\* probabilities only), parameter cycles, Validate() of the recorded
\* expressions, CCF groups, basic events.  The construction gets past them
\* only if none finds a defect; otherwise its error is that of the first
\* check in the order that finds one, the checks before it have run and no
\* check after it has.
C17_CheckOrder ==
    /\ pc \in {"SetupForAnalysis", "done"} => FirstFailing = 0
    /\ pc = "error" =>
          /\ RaisedBy(FirstFailing)
          /\ FirstFailing > 1 => GatesVisited
          /\ FirstFailing < 2 => ~BranchesTouched
          /\ FirstFailing > 2 => BranchesVisited
          /\ FirstFailing < 4 => ~ParametersTouched
          /\ FirstFailing > 4 => ParametersVisited
          /\ FirstFailing < 5 => Validated = {}
          /\ FirstFailing > 5 => Validated = 1..Len(expressions_)
    /\ err.msg = "InvalidBasicEvents" => ~Fails(6)

\* A model with a gate cycle, a parameter cycle, an invalid CCF group and an
\* invalid basic event fails with the cycle of the gate, the parameters not
\* visited.
C17_Witness ==
    /\ pc = "error"
    /\ Fails(1) /\ Fails(4) /\ Fails(6) /\ Fails(7)
    /\ err.kind = "CycleError"
    /\ err.names[1] = "g"
    /\ ~ParametersTouched

-----------------------------------------------------------------------------
(* Models with two event trees: the second has the name of the first or    *)
(* its own, a sequence with the name of a sequence of the first or its     *)
(* own, one or two sequences, and with or without a second functional      *)
(* event and a second named branch of the same name.                       *)

TreesDocument(doc, v) ==
    Document(doc,
        << Named(doc, "define-event-tree", "ET1", 200,
               << Named(doc, "define-functional-event", "F", 201, <<>>),
                  Named(doc, "define-sequence", "S1", 202, <<>>),
                  Named(doc, "define-branch", "b1", 203,
                        << Named(doc, "sequence", "S1", 204, <<>>) >>),
                  Plain(doc, "initial-state", 210,
                        << Named(doc, "branch", "b1", 211, <<>>) >>) >>),
           Named(doc, "define-event-tree", v.name, 300,
               << Named(doc, "define-functional-event", "F", 301, <<>>) >>
               \o Opt(v.functional_event,
                      Named(doc, "define-functional-event", "F", 302, <<>>))
               \o << Named(doc, "define-sequence", v.sequence, 303, <<>>) >>
               \o Opt(v.two,
                      Named(doc, "define-sequence", "S3", 304, <<>>))
               \o << Named(doc, "define-branch", "b1", 305,
                        << Named(doc, "sequence", v.sequence, 306, <<>>) >>)
                  >>
               \o Opt(v.branch,
                      Named(doc, "define-branch", "b1", 307,
                            << Named(doc, "sequence", "S1", 308, <<>>) >>))
               \o << Plain(doc, "initial-state", 310,
                        << Named(doc, "branch", "b1", 311, <<>>) >>) >>) >>)

TreesDisk(v) == [path \in Paths |-> TreesDocument(path, v)]

InitTrees ==
    \E v \in [name : {"ET1", "ET2"}, sequence : {"S1", "S2"},
              functional_event : BOOLEAN, two : BOOLEAN, branch : BOOLEAN] :
        InitWith(<<"a.xml">>, TreesDisk(v), [probability_analysis |-> FALSE])

SpecTrees == InitTrees /\ [][Next]_vars

-----------------------------------------------------------------------------
(* The registration of an event tree.                                      *)

\* The event tree elements of the input, in the order of their processing.
TreeNodes ==
    Concat([k \in 1..Len(xml_files) |->
               Find(disk[xml_files[k]].root, "define-event-tree")])

\* The entity of the kind that the element registered is in the model.
RegisteredAs(kind, node) ==
    \E k \in 1..Len(model_.reg[kind]) :
        /\ model_.reg[kind][k].line = node.line
        /\ model_.reg[kind][k].doc = node.doc

\* The position on tbd_ of the item of the element, 0 if it has none.
ItemOf(node) ==
    IF \E k \in 1..Len(tbd_) : tbd_[k].node = node
    THEN CHOOSE k \in 1..Len(tbd_) : tbd_[k].node = node
    ELSE 0

\* The line of the first of the elements that has the name of an earlier
\* one, 0 if the names differ.
FirstDuplicate(nodes) ==
    LET dup == {j \in 1..Len(nodes) :
                   \E i \in 1..(j - 1) : NameIn(nodes[i]) = NameIn(nodes[j])}
    IN  IF dup = {} THEN 0
        ELSE nodes[CHOOSE j \in dup : \A k \in dup : j <= k].line

\* The sequences of the first t event trees.
SequencesUpTo(t) ==
    Concat([k \in 1..t |-> Find(TreeNodes[k], "define-sequence")])

\* The line of the error that the registration of tree t raises, the trees
\* before it being registered: a duplicate functional event, then a
\* duplicate sequence, then a duplicate branch, then the name of the tree.
TreeDefect(t) ==
    LET fe == FirstDuplicate(Find(TreeNodes[t], "define-functional-event"))
        sq == FirstDuplicate(SequencesUpTo(t))
        br == FirstDuplicate(Find(TreeNodes[t], "define-branch"))
    IN  IF fe # 0 THEN fe
        ELSE IF sq # 0 THEN sq
        ELSE IF br # 0 THEN br
        ELSE IF \E i \in 1..(t - 1) :
                   NameIn(TreeNodes[i]) = NameIn(TreeNodes[t])
        THEN TreeNodes[t].line
        ELSE 0

FirstTreeDefect ==
    LET bad == {t \in 1..Len(TreeNodes) : TreeDefect(t) # 0}
    IN  IF bad = {} THEN 0
        ELSE TreeDefect(CHOOSE t \in bad : \A k \in bad : t <= k)

NamesIn(nodes) == [k \in 1..Len(nodes) |-> NameIn(nodes[k])]

EntityNames(table) == [k \in 1..Len(table) |-> table[k].name]

\* C18 as stated: the tree is registered in the model before its sequences
\* are: a sequence of a tree is in the model only if the tree is, so that a
\* tree with a duplicate name is rejected with none of its sequences added.
C18_TreeFirst ==
    \A t \in 1..Len(TreeNodes) :
        \A q \in Range(Find(TreeNodes[t], "define-sequence")) :
            RegisteredAs("sequence", q) =>
                RegisteredAs("event-tree", TreeNodes[t])

\* C18, amended: the functional events, the sequences (each added to the
\* model and given a pending item) and the shells of the named branches
\* are added to the tree in this order, each kind in document order, and
\* the tree is registered in the model last, its pending item after those
\* of its sequences.  A tree in the model has all its sequences in the
\* model; the error of a registration is that of the first duplicate in
\* this order; a tree with a duplicate name is rejected after all of its
\* sequences are added to the model.
C18_TreeLast ==
    /\ \A t \in 1..Len(TreeNodes) :
          RegisteredAs("event-tree", TreeNodes[t]) =>
              LET tree == model_.reg["event-tree"][
                              CHOOSE k \in 1..Len(model_.reg["event-tree"]) :
                                  model_.reg["event-tree"][k].line
                                      = TreeNodes[t].line]
              IN  /\ NamesIn(Find(TreeNodes[t], "define-functional-event"))
                        = EntityNames(tree.functional_events)
                  /\ NamesIn(Find(TreeNodes[t], "define-sequence"))
                        = [k \in 1..Len(tree.sequences) |->
                              Deref(model_, tree.sequences[k]).name]
                  /\ NamesIn(Find(TreeNodes[t], "define-branch"))
                        = EntityNames(tree.branches)
                  /\ ItemOf(TreeNodes[t]) # 0
                  /\ \A q \in Range(Find(TreeNodes[t], "define-sequence")) :
                        /\ RegisteredAs("sequence", q)
                        /\ ItemOf(q) # 0
                        /\ ItemOf(q) < ItemOf(TreeNodes[t])
    /\ pc \in {"ProcessTbdElements", "ValidateInitialization",
               "SetupForAnalysis", "done"} => FirstTreeDefect = 0
    /\ pc = "error" =>
          /\ err.msg = "DuplicateEntity"
          /\ err.lines = <<FirstTreeDefect>>
    /\ \A t \in 1..Len(TreeNodes) :
          (/\ pc = "error"
           /\ err.lines = <<TreeNodes[t].line>>) =>
              /\ err.names = <<"event-tree", NameIn(TreeNodes[t])>>
              /\ ~RegisteredAs("event-tree", TreeNodes[t])
              /\ ItemOf(TreeNodes[t]) = 0
              /\ \A q \in Range(Find(TreeNodes[t], "define-sequence")) :
                    RegisteredAs("sequence", q) /\ ItemOf(q) # 0

\* The second tree, with the name of the first, is rejected with its two
\* sequences in the model.
C18_Witness ==
    /\ pc = "error"
    /\ err.names = <<"event-tree", "ET1">>
    /\ Len(model_.reg["event-tree"]) = 1
    /\ Len(model_.reg["sequence"]) = 3

-----------------------------------------------------------------------------
(* Models with a fault tree whose elements are in the reverse of the order *)
(* of their registration: components first, house events last; a gate, a   *)
(* basic event, a house event, a member of the CCF group, a gate of the    *)
(* component, a second component or a second fault tree may have a name    *)
(* that is taken.                                                          *)

GateOn(doc, name, line) ==
    Named(doc, "define-gate", name, line,
          << Named(doc, "basic-event", "b", line + 1, <<>>) >>)

OrderFaultTree(doc, v) ==
    Named(doc, "define-fault-tree", "FT", 10,
        << Named(doc, "define-component", "C", 11,
               << GateOn(doc, v.sub_gate, 12),
                  Named(doc, "define-house-event", "hc", 14, <<>>) >>) >>
        \o Opt(v.second # "none",
               Named(doc, "define-component", v.second, 20,
                     << GateOn(doc, "gd", 21) >>))
        \o << CcfGroupOf(doc, "ccf", "", v.member, 30),
              GateOn(doc, "g", 40) >>
        \o Opt(v.gate, GateOn(doc, "g", 42))
        \o << Named(doc, "define-parameter", "p", 50, << Float(doc, 51) >>),
              BasicEventOf(doc, "b", 60, TRUE) >>
        \o Opt(v.basic, BasicEventOf(doc, "b", 62, TRUE))
        \o << Named(doc, "define-house-event", "h", 70, <<>>) >>
        \o Opt(v.house, Named(doc, "define-house-event", "h", 72, <<>>)))

OrderDocument(doc, v) ==
    Document(doc,
        << OrderFaultTree(doc, v) >>
        \o Opt(v.tree # "none",
               Named(doc, "define-fault-tree", v.tree, 80,
                     << GateOn(doc, "g2", 81) >>)))

OrderDisk(v) == [path \in Paths |-> OrderDocument(path, v)]

InitOrder ==
    \E v \in [sub_gate : {"gc", "g"}, second : {"none", "C", "D"},
              member : {"m", "b"}, gate : BOOLEAN, basic : BOOLEAN,
              house : BOOLEAN, tree : {"none", "FT", "FT2"}] :
        InitWith(<<"a.xml">>, OrderDisk(v), [probability_analysis |-> FALSE])

SpecOrder == InitOrder /\ [][Next]_vars

-----------------------------------------------------------------------------
(* The order of the registrations of a fault tree.                         *)

\* A registration that the elements call for: the kind, the key under
\* which the name must be new, the line, whether a pending item follows
\* it, and the number of registrations between it and its item.
Registration(kind, key, line, item, span) ==
    [kind |-> kind, key |-> key, line |-> line, item |-> item,
     span |-> span]

RegistrationsOf(nodes, kind, item) ==
    [k \in 1..Len(nodes) |->
        Registration(kind, <<NameIn(nodes[k])>>, nodes[k].line, item, 0)]

\* A CCF group, then its members; the item of the group follows them.
CcfRegistrations(nodes) ==
    Concat([k \in 1..Len(nodes) |->
        << Registration("ccf-group", <<NameIn(nodes[k])>>, nodes[k].line,
                        TRUE, Len(FindAll(Find(nodes[k], "members")[1]))) >>
        \o RegistrationsOf(FindAll(Find(nodes[k], "members")[1]),
                           "basic-event", FALSE)])

\* The registrations of a fault tree or component with public names, in
\* the order of C19: house events, basic events, parameters, gates, CCF
\* groups, then each sub-component after its own contents.
RECURSIVE ContainerRegistrations(_)
ContainerRegistrations(node) ==
    RegistrationsOf(Find(node, "define-house-event"), "house-event", FALSE)
    \o RegistrationsOf(Find(node, "define-basic-event"), "basic-event", TRUE)
    \o RegistrationsOf(Find(node, "define-parameter"), "parameter", TRUE)
    \o RegistrationsOf(Find(node, "define-gate"), "gate", TRUE)
    \o CcfRegistrations(Find(node, "define-CCF-group"))
    \o Concat([k \in 1..Len(Find(node, "define-component")) |->
          ContainerRegistrations(Find(node, "define-component")[k])
          \o << Registration("component",
                    <<ToString(node.line),
                      NameIn(Find(node, "define-component")[k])>>,
                    Find(node, "define-component")[k].line, FALSE, 0) >>])

\* The registrations of the fault trees of the input, each fault tree
\* after its contents.
FaultTreeRegistrations ==
    Concat([f \in 1..Len(xml_files) |->
        Concat([k \in 1..Len(Find(disk[xml_files[f]].root,
                                  "define-fault-tree")) |->
            ContainerRegistrations(
                Find(disk[xml_files[f]].root, "define-fault-tree")[k])
            \o RegistrationsOf(
                   << Find(disk[xml_files[f]].root,
                           "define-fault-tree")[k] >>,
                   "fault-tree", FALSE)])])

\* The position of the first registration whose key is taken by an earlier
\* one of its kind, 0 if there is none.
FirstTaken(ev) ==
    LET taken == {j \in 1..Len(ev) :
                     \E i \in 1..(j - 1) :
                         ev[i].kind = ev[j].kind /\ ev[i].key = ev[j].key}
    IN  IF taken = {} THEN 0
        ELSE CHOOSE j \in taken : \A k \in taken : j <= k

\* The number of registrations that complete.
Completed(ev) == IF FirstTaken(ev) = 0 THEN Len(ev) ELSE FirstTaken(ev) - 1

RegisteredAt(kind, line) ==
    \E k \in 1..Len(model_.reg[kind]) : model_.reg[kind][k].line = line

\* The lines of the registrations with a pending item among those that
\* complete, the item itself appended.
ItemLines(ev) ==
    LET with == SelectSeq([j \in 1..Len(ev) |-> j],
                    LAMBDA j : ev[j].item /\ j + ev[j].span <= Completed(ev))
    IN  [k \in 1..Len(with) |-> ev[with[k]].line]

\* The members and the sub-components of a container of the model are
\* those of its element, kind after kind.
RECURSIVE MembersInOrder(_, _)
MembersInOrder(component, node) ==
    LET ev == RegistrationsOf(Find(node, "define-house-event"),
                              "house-event", FALSE)
              \o RegistrationsOf(Find(node, "define-basic-event"),
                                 "basic-event", TRUE)
              \o RegistrationsOf(Find(node, "define-parameter"),
                                 "parameter", TRUE)
              \o RegistrationsOf(Find(node, "define-gate"), "gate", TRUE)
              \o RegistrationsOf(Find(node, "define-CCF-group"),
                                 "ccf-group", TRUE)
        subs == Find(node, "define-component")
    IN  /\ Len(component.members) = Len(ev)
        /\ \A k \in 1..Len(ev) :
              /\ component.members[k].kind = ev[k].kind
              /\ Deref(model_, component.members[k]).line = ev[k].line
        /\ Len(component.components) = Len(subs)
        /\ \A k \in 1..Len(subs) :
              /\ component.components[k].name = NameIn(subs[k])
              /\ MembersInOrder(component.components[k], subs[k])

\* C19: within a fault tree or component the entities register in the
\* order house events, basic events, parameters, gates, CCF groups,
\* sub-components, each kind in document order; a sub-component is added
\* to its parent after all of its own contents have registered, and a
\* fault tree is added to the model after all of its contents.  Once the
\* file is read the model holds exactly the registrations that precede,
\* in this order, the first one whose name is taken; the error is of that
\* one; the pending items are in this order; and a fault tree of the
\* model has its members and sub-components in this order.
C19_RegistrationOrder ==
    LET ev == FaultTreeRegistrations
    IN  /\ file_i = Len(xml_files) =>
              /\ \A j \in 1..Len(ev) :
                    ev[j].kind \in Kinds =>
                        (RegisteredAt(ev[j].kind, ev[j].line)
                            <=> j <= Completed(ev))
              /\ [k \in 1..Len(tbd_) |-> tbd_[k].node.line] = ItemLines(ev)
              /\ \A k \in 1..Len(model_.reg["fault-tree"]) :
                    \E el \in InputElements :
                        /\ el.tag = "define-fault-tree"
                        /\ el.line = model_.reg["fault-tree"][k].line
                        /\ MembersInOrder(model_.reg["fault-tree"][k], el)
        /\ pc = "error" =>
              /\ FirstTaken(ev) # 0
              /\ err.msg = "DuplicateEntity"
              /\ err.lines = <<ev[FirstTaken(ev)].line>>
        /\ pc \in {"ProcessTbdElements", "ValidateInitialization",
                   "SetupForAnalysis", "done"} => FirstTaken(ev) = 0

\* The second component of the name C is rejected by the fault tree with
\* its own gate registered, after the entities of the fault tree.
C19_Witness ==
    /\ pc = "error"
    /\ err.names = <<"component", "C">>
    /\ err.lines = <<20>>
    /\ RegisteredAt("gate", 21)
    /\ RegisteredAt("ccf-group", 30)
    /\ RegisteredAt("house-event", 70)
    /\ model_.reg["fault-tree"] = <<>>

-----------------------------------------------------------------------------
(* Models with two event trees, in either order: ET1 with the functional   *)
(* events F and G, the sequence S1 and the branch b0; ET2 with the         *)
(* functional event F, the sequence S2 and the branches b1 and b2, b1 with *)
(* up to two instructions and a target of every kind, resolvable or not.   *)

Collect(doc, line) ==
    Plain(doc, "collect-expression", line, << Float(doc, line + 1) >>)

ForkOf(doc, functional_event, line, first, second) ==
    El(doc, "fork", ("functional-event" :> functional_event), line,
       << El(doc, "path", [state |-> "s1"], line + 1, first),
          El(doc, "path", [state |-> "s2"], line + 10, second) >>)

Targets ==
    {"sequence", "other-sequence", "no-sequence", "later-branch",
     "other-branch", "fork", "other-fork", "fork-unresolved", "nested-fork"}

TargetOf(doc, target, line) ==
    CASE target = "sequence" -> Named(doc, "sequence", "S2", line, <<>>)
      [] target = "other-sequence" ->
            Named(doc, "sequence", "S1", line, <<>>)
      [] target = "no-sequence" -> Named(doc, "sequence", "SZ", line, <<>>)
      [] target = "later-branch" -> Named(doc, "branch", "b2", line, <<>>)
      [] target = "other-branch" -> Named(doc, "branch", "b0", line, <<>>)
      [] target = "fork" ->
            ForkOf(doc, "F", line,
                   << Named(doc, "branch", "b2", line + 2, <<>>) >>,
                   << Named(doc, "branch", "b2", line + 11, <<>>) >>)
      [] target = "other-fork" ->
            ForkOf(doc, "G", line,
                   << Named(doc, "branch", "b2", line + 2, <<>>) >>,
                   << Named(doc, "sequence", "S2", line + 11, <<>>) >>)
      [] target = "fork-unresolved" ->
            ForkOf(doc, "F", line,
                   << Named(doc, "branch", "b2", line + 2, <<>>) >>,
                   << Named(doc, "branch", "bz", line + 11, <<>>) >>)
      [] target = "nested-fork" ->
            ForkOf(doc, "F", line,
                   << Collect(doc, line + 2),
                      Named(doc, "sequence", "S1", line + 4, <<>>) >>,
                   << ForkOf(doc, "F", line + 11,
                         << Named(doc, "branch", "b2", line + 13, <<>>) >>,
                         << Named(doc, "branch", "b2", line + 22,
                                  <<>>) >>) >>)

TargetsDocument(doc, v) ==
    LET first ==
            Named(doc, "define-event-tree", "ET1", 200,
               << Named(doc, "define-functional-event", "F", 201, <<>>),
                  Named(doc, "define-functional-event", "G", 202, <<>>),
                  Named(doc, "define-sequence", "S1", 203, <<>>),
                  Named(doc, "define-branch", "b0", 204,
                        << Named(doc, "sequence", "S1", 205, <<>>) >>),
                  Plain(doc, "initial-state", 210,
                        << Named(doc, "branch", "b0", 211, <<>>) >>) >>)
        second ==
            Named(doc, "define-event-tree", "ET2", 300,
               << Named(doc, "define-functional-event", "F", 301, <<>>),
                  Named(doc, "define-sequence", "S2", 303, <<>>),
                  Named(doc, "define-branch", "b1", 305,
                        [k \in 1..v.instructions |->
                            Collect(doc, 304 + 2 * k)]
                        \o << TargetOf(doc, v.target, 310) >>),
                  Named(doc, "define-branch", "b2", 350,
                        << Named(doc, "sequence", "S2", 351, <<>>) >>),
                  Plain(doc, "initial-state", 360,
                        << Collect(doc, 361),
                           Named(doc, "branch", "b1", 363, <<>>) >>) >>)
    IN  Document(doc,
            IF v.reversed THEN <<second, first>> ELSE <<first, second>>)

TargetsDisk(v) == [path \in Paths |-> TargetsDocument(path, v)]

InitTargets ==
    \E v \in [target : Targets, instructions : 0..2, reversed : BOOLEAN] :
        InitWith(<<"a.xml">>, TargetsDisk(v),
                 [probability_analysis |-> FALSE])

SpecTargets == InitTargets /\ [][Next]_vars

-----------------------------------------------------------------------------
(* The definition of the branches.                                         *)

\* The target and the instructions of a branch of the tree are those that
\* its elements state: the last element is the target, resolved by its
\* tag, and the elements before it are the instructions.
RECURSIVE Resolves(_, _, _)
Resolves(tree, nodes, branch) ==
    LET target_node == nodes[Len(nodes)]
    IN  /\ Len(branch.instructions) = Len(nodes) - 1
        /\ \A k \in 1..(Len(nodes) - 1) :
              /\ nodes[k].tag = "collect-expression"
              /\ branch.instructions[k].kind = "expr"
              /\ model_.expressions[branch.instructions[k].i].line
                    = FindAll(nodes[k])[1].line
        /\ CASE target_node.tag = "fork" ->
                  /\ branch.target.k = "fork"
                  /\ LET fork == tree.forks[branch.target.i]
                         paths == Find(target_node, "path")
                     IN  /\ tree.functional_events[fork.functional_event]
                               .name = GetAttributeValue(target_node,
                                                         "functional-event")
                         /\ Len(fork.paths) = Len(paths)
                         /\ \A j \in 1..Len(paths) :
                               /\ fork.paths[j].state
                                     = GetAttributeValue(paths[j], "state")
                               /\ Resolves(tree, FindAll(paths[j]),
                                           fork.paths[j])
             [] target_node.tag = "sequence" ->
                  /\ branch.target.k = "sequence"
                  /\ model_.reg["sequence"][branch.target.i].name
                        = NameIn(target_node)
             [] target_node.tag = "branch" ->
                  /\ branch.target.k = "branch"
                  /\ tree.branches[branch.target.i].name
                        = NameIn(target_node)
             [] OTHER -> FALSE

\* The element of an event tree of the model.
TreeNode(tree) ==
    CHOOSE el \in InputElements :
        el.tag = "define-event-tree" /\ el.line = tree.line

\* The elements of the targets of a tree element.
TargetNodes(et_node) ==
    {el \in Range(Descendants(et_node)) :
        el.tag \in {"fork", "sequence", "branch"}}

\* No declaration answers the target: no functional event of the tree for
\* a fork, no sequence of the input for a sequence, no named branch of the
\* tree for a branch.
Unresolvable(et_node, el) ==
    CASE el.tag = "fork" ->
            \A d \in Range(Find(et_node, "define-functional-event")) :
                NameIn(d) # GetAttributeValue(el, "functional-event")
      [] el.tag = "sequence" -> ~Declared("define-sequence", NameIn(el))
      [] OTHER ->
            \A d \in Range(Find(et_node, "define-branch")) :
                NameIn(d) # NameIn(el)

UnresolvableTargets ==
    UNION {{el \in TargetNodes(et_node) : Unresolvable(et_node, el)} :
           et_node \in Range(TreeNodes)}

\* C20: the definition of a branch takes its last element as the target
\* and those before it as the instructions, and resolves the target by its
\* tag: a fork by a functional event of the same tree, a sequence by a
\* sequence of the model, a branch by a named branch of the same tree,
\* declared before or after.  The names of the branches of a tree are
\* unique, so that all references to a name are to one branch.  The
\* definitions complete only if every target resolves; otherwise a
\* ValidationError with the line of an unresolved target is raised.
C20_Targets ==
    /\ \A t \in 1..Len(model_.reg["event-tree"]) :
          LET tree == model_.reg["event-tree"][t]
              nodes == Find(TreeNode(tree), "define-branch")
          IN  /\ \A i, j \in 1..Len(tree.branches) :
                    tree.branches[i].name = tree.branches[j].name => i = j
              /\ tree.initial_state # <<>> =>
                    /\ Len(tree.branches) = Len(nodes)
                    /\ \A j \in 1..Len(nodes) :
                          /\ tree.branches[j].name = NameIn(nodes[j])
                          /\ tree.branches[j].target # <<>>
                          /\ Resolves(tree, GetNonAttributeElements(nodes[j]),
                                [target |-> tree.branches[j].target[1],
                                 instructions |->
                                     tree.branches[j].instructions])
                    /\ Resolves(tree,
                          FindAll(Find(TreeNode(tree), "initial-state")[1]),
                          tree.initial_state[1])
    /\ pc \in {"ValidateInitialization", "SetupForAnalysis", "done"} =>
          /\ UnresolvableTargets = {}
          /\ \A t \in 1..Len(model_.reg["event-tree"]) :
                model_.reg["event-tree"][t].initial_state # <<>>
    /\ pc = "error" =>
          /\ err.kind = "ValidationError"
          /\ err.msg = "Undefined"
          /\ \E el \in UnresolvableTargets :
                /\ err.lines = <<el.line>>
                /\ err.names[2] =
                      IF el.tag = "fork"
                      THEN GetAttributeValue(el, "functional-event")
                      ELSE NameIn(el)

\* The two paths of a fork of a branch with two instructions have the
\* branch declared after it as their target, and the construction is
\* complete.
C20_Witness ==
    /\ pc = "done"
    /\ \E t \in 1..Len(model_.reg["event-tree"]) :
          LET tree == model_.reg["event-tree"][t]
          IN  /\ Len(tree.forks) = 1
              /\ Len(tree.branches[1].instructions) = 2
              /\ tree.branches[1].target[1].k = "fork"
              /\ tree.forks[1].paths[1].target = [k |-> "branch", i |-> 2]
              /\ tree.forks[1].paths[2].target = [k |-> "branch", i |-> 2]

-----------------------------------------------------------------------------
(* Models with one parameter whose expression is an operator over          *)
(* arguments that are constants, operators over a constant, or operators   *)
(* over such an operator.                                                  *)

ArgumentShapes == {"float", "neg", "deep"}

ArgumentOf(doc, shape, line) ==
    CASE shape = "float" -> Float(doc, line)
      [] shape = "neg" -> Plain(doc, "neg", line, << Float(doc, line + 1) >>)
      [] shape = "deep" ->
            Plain(doc, "neg", line,
                  << Plain(doc, "neg", line + 1,
                           << Float(doc, line + 2) >>) >>)

\* The numbers of arguments of the generated operators: those that the
\* constructors take, up to five for periodic-test and three for add.
ArgumentCounts(tag) ==
    CASE tag = "lognormal-deviate" -> {2, 3}
      [] tag = "periodic-test" -> {4, 5}
      [] tag = "add" -> {2, 3}
      [] OTHER -> {NumArgs(tag)}

ArgumentsDocument(doc, tag, shapes) ==
    Document(doc,
        << Plain(doc, "model-data", 90,
               << Named(doc, "define-parameter", "p1", 100,
                      << Plain(doc, tag, 200,
                             [k \in 1..Len(shapes) |->
                                 ArgumentOf(doc, shapes[k],
                                            200 + 10 * k)]) >>) >>) >>)

ArgumentsDisk(tag, shapes) ==
    [path \in Paths |-> ArgumentsDocument(path, tag, shapes)]

InitArguments ==
    \E tag \in {"neg", "exponential", "ite", "GLM", "lognormal-deviate",
                "periodic-test", "add"} :
        \E n \in ArgumentCounts(tag) :
            \E shapes \in [1..n -> ArgumentShapes] :
                InitWith(<<"a.xml">>, ArgumentsDisk(tag, shapes),
                         [probability_analysis |-> FALSE])

SpecArguments == InitArguments /\ [][Next]_vars

-----------------------------------------------------------------------------
(* The arguments of an operator.                                           *)

\* The element for which an expression of the model is constructed.
ElementOf(expression) ==
    CHOOSE el \in InputElements :
        /\ el.doc = expression.doc
        /\ el.line = expression.line
        /\ el.tag = expression.tag

\* The operators whose constructor takes a fixed number of arguments.
FixedArity(tag) == tag \in ExtractorTags /\ NumArgs(tag) # -1

\* The position on expressions_ of the entry of an element, 0 if none.
RecordOf(el) ==
    IF \E k \in 1..Len(expressions_) : expressions_[k].node = el
    THEN CHOOSE k \in 1..Len(expressions_) : expressions_[k].node = el
    ELSE 0

\* C21: the constructor of an operator with a fixed number N of arguments
\* receives the expressions of its N elements in document order; the model
\* is handed them, and expressions_ records those of them that are
\* recorded, from the last to the first; every recorded expression is on
\* expressions_ after all of its recorded sub-expressions.
C21_ArgumentOrder ==
    /\ \A i \in 1..Len(model_.expressions) :
          LET e == model_.expressions[i]
              kids == FindAll(ElementOf(e))
          IN  FixedArity(e.tag) =>
                /\ Len(e.args) = Len(kids)
                /\ \A k \in 1..Len(kids) :
                      /\ e.args[k].kind = "expr"
                      /\ e.args[k].i < i
                      /\ ElementOf(model_.expressions[e.args[k].i])
                            = kids[k]
                /\ \A j, k \in 1..Len(kids) :
                      j < k =>
                        /\ e.args[k].i < e.args[j].i
                        /\ (RecordOf(kids[j]) # 0 /\ RecordOf(kids[k]) # 0)
                              => RecordOf(kids[k]) < RecordOf(kids[j])
    /\ \A a, b \in 1..Len(expressions_) :
          expressions_[b].node \in Range(Descendants(expressions_[a].node))
              => b < a
    /\ pc \in {"ValidateInitialization", "SetupForAnalysis", "done"} =>
          \A el \in InputElements :
              el.tag \in ExtractorTags => RecordOf(el) # 0

\* An operator of three arguments, the first and the last of which are
\* operators: the last is recorded first, the operator itself last.
C21_Witness ==
    /\ pc = "done"
    /\ \E i \in 1..Len(model_.expressions) :
          LET e == model_.expressions[i]
              kids == FindAll(ElementOf(e))
          IN  /\ e.tag = "ite"
              /\ RecordOf(kids[3]) = 1
              /\ RecordOf(kids[1]) = 2
              /\ RecordOf(ElementOf(e)) = 3
              /\ e.args[3].i < e.args[2].i
              /\ e.args[2].i < e.args[1].i

-----------------------------------------------------------------------------
(* Models of two files, supplied in either order or the first alone: a.xml *)
(* declares the parameter p, b.xml the parameter q over a reference to p   *)
(* or to an undeclared name; the expression of either may be outside its   *)
(* domain; b.xml may declare p once more after q, or fail the validation   *)
(* against the schema.                                                     *)

DomainAttr(invalid) == IF invalid THEN [domain |-> "invalid"] ELSE NoAttrs

RetainedDocument(doc, v) ==
    IF Canonical(doc) = 1
    THEN Document(doc,
            << Plain(doc, "model-data", 90,
                   << Named(doc, "define-parameter", "p", 100,
                          << El(doc, "neg", DomainAttr(v.a_domain), 101,
                                << Float(doc, 102) >>) >>) >>) >>)
    ELSE [Document(doc,
            << Plain(doc, "model-data", 90,
                   << Named(doc, "define-parameter", "q", 120,
                          << El(doc, "neg", DomainAttr(v.b_domain), 121,
                                << Named(doc, "parameter", v.reference, 122,
                                         <<>>) >>) >>) >>
                   \o Opt(v.defect = "duplicate",
                          Named(doc, "define-parameter", "p", 130,
                                << Float(doc, 131) >>))) >>)
            EXCEPT !.valid = v.defect # "schema"]

RetainedDisk(v) == [path \in Paths |-> RetainedDocument(path, v)]

InitRetained ==
    \E v \in [a_domain : BOOLEAN, b_domain : BOOLEAN,
              reference : {"p", "pz"},
              defect : {"none", "duplicate", "schema"}],
       files \in {<<"a.xml", "b.xml">>, <<"b.xml", "a.xml">>, <<"b.xml">>} :
        InitWith(files, RetainedDisk(v), [probability_analysis |-> FALSE])

SpecRetained == InitRetained /\ [][Next]_vars

-----------------------------------------------------------------------------
(* The documents of the nodes that are kept for later.                     *)

\* The document of the node is parsed by a retained parser and its root is
\* in doc_to_file_, with a supplied file that holds the node.
Retained(node) ==
    /\ RootOf(node) \in Range(parsers_)
    /\ \E p \in doc_to_file_ :
          /\ p[1] = RootOf(node)
          /\ p[2] \in Range(xml_files)
          /\ node \in Range(Descendants(disk[p[2]].root))
    /\ \A p, q \in doc_to_file_ : p[1] = q[1] => p = q

\* The nodes of the pending items and of the recorded expressions.
KeptNodes ==
    {tbd_[k].node : k \in 1..Len(tbd_)}
    \cup {expressions_[k].node : k \in 1..Len(expressions_)}

\* C22: while the pending items are defined and the recorded expressions
\* validated, and afterwards, every node of a pending item or of a recorded
\* expression is of a document whose parser is retained and whose root
\* doc_to_file_ maps to its file.  Expressions are built by the deferred
\* definitions only: none exists while files are registered.  The file in
\* the error of a deferred definition or of the validation of an
\* expression is the file of the node in use.
C22_NodesRetained ==
    /\ pc \in {"ProcessTbdElements", "ValidateInitialization",
               "SetupForAnalysis", "done"} =>
          /\ Len(parsers_) = Len(xml_files)
          /\ \A node \in KeptNodes : Retained(node)
    /\ (pc = "error" /\ tbd_i > 0) => \A node \in KeptNodes : Retained(node)
    /\ (tbd_i = 0 /\ pc # "ProcessTbdElements") =>
          expressions_ = <<>> /\ model_.expressions = <<>>
    /\ \A k \in 1..Len(expressions_) :
          \E j \in 1..tbd_i :
              expressions_[k].node \in Range(Descendants(tbd_[j].node))
    /\ (pc = "error" /\ err.msg \in {"Undefined", "UnitMismatch"}) =>
          /\ tbd_i > 0
          /\ err.files = <<tbd_[tbd_i].node.doc>>
          /\ err.files[1] \in Range(xml_files)
    /\ (pc = "error" /\ err.msg = "domain") =>
          \E k \in Validated :
              /\ GetAttributeValue(expressions_[k].node, "domain")
                    = "invalid"
              /\ err.files = <<expressions_[k].node.doc>>
              /\ err.lines = <<expressions_[k].node.line>>
              /\ err.files[1] \in Range(xml_files)

\* The error of the definition of a parameter of the second file names
\* that file, with the pending items of both files at hand.
C22_Witness ==
    /\ pc = "error"
    /\ err.msg = "Undefined"
    /\ xml_files = <<"a.xml", "b.xml">>
    /\ err.files = <<"b.xml">>
    /\ Len(parsers_) = 2
    /\ {tbd_[k].node.doc : k \in 1..Len(tbd_)} = {"a.xml", "b.xml"}
    /\ expressions_ # <<>>

====
